---- MODULE Spec2Model ----
(***************************************************************************)
(* Duplicate-override security subsystem of gastos_robot                   *)
(* (src/sical_security.py): the confirmation token manager, the            *)
(* multi-window rate limiter and the signed configuration file, and the    *)
(* processors that use them (src/sical_base.py, src/processors).           *)
(*                                                                         *)
(* Specifications:                                                         *)
(*   SpecTok      DuplicateConfirmationManager, one caller at a time       *)
(*   SpecTokConc  validate_token called from concurrent threads            *)
(*   SpecTamper   one token, presented with single-value mutations         *)
(*   SpecRL       MultiWindowRateLimiter, one caller at a time             *)
(*   SpecRLConc   check_rate_limit called from concurrent threads          *)
(*   SpecBH       the limiter under business hours and empty window lists  *)
(*   SpecPair     two limiters called at the same times, terceros apart    *)
(*   SpecCfg      the configuration file saved, loaded and tampered with   *)
(*   SpecCfgConc  load_rate_limit_config during a save_config              *)
(*   SpecFlow     execute of the ADO220 and PMP450 processors              *)
(*   SpecHash     one token, presented with payloads of several line items *)
(***************************************************************************)
EXTENDS Integers, Sequences, FiniteSets, TLC

VARIABLES
    now,            \* time.time(), in seconds
    tokens,         \* DuplicateConfirmationManager.tokens: token_id -> ConfirmationToken
    last_cleanup,   \* DuplicateConfirmationManager._last_cleanup
    nextId,         \* the next value secrets.token_urlsafe will return
    issued,         \* history: every token ever generated, as generated
    succeeded,      \* history: token ids for which validate_token returned (True, "")
    lastOp,         \* the call made by the last step and what it returned
    vt,             \* per thread: the position and locals of a running validate_token
    heapUsed,       \* the used field of every ConfirmationToken object, in the table or not
    config,         \* MultiWindowRateLimiter.config
    operations,     \* MultiWindowRateLimiter.operations
    calls,          \* history: the check_rate_limit calls that returned, in order
    rt,             \* per thread: the position and locals of a running check_rate_limit
    peer,           \* a second MultiWindowRateLimiter with the same config
    file,           \* the content of the configuration file at config_path
    saves,          \* history: the policies save_rate_limit_config has written
    loadOp,         \* the last load_rate_limit_config call and what it returned
    sv,             \* the position and locals of a running save_config
    audit,          \* the records audit_log_force_create has emitted and written
    attempt         \* the last SicalOperationProcessor.execute call and its result

tokVars == <<tokens, last_cleanup, nextId, issued, succeeded, lastOp>>
tokThreadVars == <<vt, heapUsed>>
rlVars == <<config, operations, calls, peer>>
cfgVars == <<file, saves, loadOp, sv>>
flowVars == <<audit, attempt>>
vars == <<now, tokens, last_cleanup, nextId, issued, succeeded, lastOp, vt, heapUsed,
          config, operations, calls, rt, peer, file, saves, loadOp, sv,
          audit, attempt>>

----------------------------------------------------------------------------
(* Bounds of the model *)

MaxTokens == 2          \* generate_token calls per behaviour
MaxTicks == 6           \* clock advances per behaviour
MaxApps == 1            \* line items of a payload a token is issued for
NumThreads == 2         \* threads calling into one manager or one limiter
MaxCalls == 4           \* check_rate_limit calls per behaviour
MaxRLTicks == 5         \* clock advances per behaviour of the limiter

(* Program constants *)

token_lifetime == 300
cleanup_interval == 60

ClockSteps == {60}      \* amounts by which the clock advances between calls

----------------------------------------------------------------------------
(* Operation payloads *)

\* A Python value used as importe: an int or a str.
PyInt(n) == [t |-> "int", n |-> n, s |-> ""]
PyString(s) == [t |-> "str", n |-> 0, s |-> s]

\* str(value)
PyStr(v) == IF v.t = "int" THEN ToString(v.n) ELSE v.s

Terceros == {"A1", "B2"}
Fechas == {"01012025", "02012025"}
Cajas == {"200", "201"}
Funcionales == {"920", "921"}
Economicas == {"224", "225"}
Importes == {PyString("100.00"), PyString("100"), PyInt(100)}

Aplicacion(f, e, i) == [funcional |-> f, economica |-> e, importe |-> i]

OperationData(t, f, c, apps) ==
    [tercero |-> t, fecha |-> f, caja |-> c, aplicaciones |-> apps]

\* The payload of the spec's scenario, and variants of it.
ScenarioPayload ==
    OperationData("A1", "01012025", "200", <<Aplicacion("920", "224", PyString("100.00"))>>)
OtherTercero ==
    OperationData("B2", "01012025", "200", <<Aplicacion("920", "224", PyString("100.00"))>>)

TokPayloads == {ScenarioPayload, OtherTercero}

Aplicaciones == {Aplicacion(f, e, i) : f \in Funcionales, e \in Economicas, i \in Importes}

\* Every payload with at most MaxApps line items.
Payloads ==
    {OperationData(t, f, c, apps) :
        t \in Terceros, f \in Fechas, c \in Cajas,
        apps \in UNION {[1..n -> Aplicaciones] : n \in 0..MaxApps}}

RemoveAt(seq, i) == SubSeq(seq, 1, i - 1) \o SubSeq(seq, i + 1, Len(seq))
InsertAt(seq, i, x) == SubSeq(seq, 1, i - 1) \o <<x>> \o SubSeq(seq, i, Len(seq))

\* The payloads a caller can make of P by changing one value, or by adding or
\* removing one line item.
Mutations(P) ==
    LET apps == P.aplicaciones
        n == Len(apps)
    IN  {[P EXCEPT !.tercero = t] : t \in Terceros \ {P.tercero}}
        \cup {[P EXCEPT !.fecha = f] : f \in Fechas \ {P.fecha}}
        \cup {[P EXCEPT !.caja = c] : c \in Cajas \ {P.caja}}
        \cup UNION {{[P EXCEPT !.aplicaciones[i].funcional = f] :
                        f \in Funcionales \ {apps[i].funcional}} : i \in 1..n}
        \cup UNION {{[P EXCEPT !.aplicaciones[i].economica = e] :
                        e \in Economicas \ {apps[i].economica}} : i \in 1..n}
        \cup UNION {{[P EXCEPT !.aplicaciones[i].importe = m] :
                        m \in Importes \ {apps[i].importe}} : i \in 1..n}
        \cup {[P EXCEPT !.aplicaciones = RemoveAt(apps, i)] : i \in 1..n}
        \cup UNION {{[P EXCEPT !.aplicaciones = InsertAt(apps, i, a)] :
                        a \in Aplicaciones} : i \in 1..(n + 1)}

secret_key == "secret"

\* Variant: caja is left out of the key fields.
hash_operation_data_NoCaja(data) ==
    [key |-> secret_key,
     msg |-> [tercero |-> data.tercero,
              fecha |-> data.fecha,
              aplicaciones |->
                  [i \in 1..Len(data.aplicaciones) |->
                      [funcional |-> data.aplicaciones[i].funcional,
                       economica |-> data.aplicaciones[i].economica,
                       importe |-> PyStr(data.aplicaciones[i].importe)]]]]

\* Variant: economica is left out of the line items.
hash_operation_data_NoEconomica(data) ==
    [key |-> secret_key,
     msg |-> [tercero |-> data.tercero,
              fecha |-> data.fecha,
              caja |-> data.caja,
              aplicaciones |->
                  [i \in 1..Len(data.aplicaciones) |->
                      [funcional |-> data.aplicaciones[i].funcional,
                       importe |-> PyStr(data.aplicaciones[i].importe)]]]]

\* _hash_operation_data: HMAC-SHA256 under the secret of
\* json.dumps(key_fields, sort_keys=True). The digest is modelled as the pair
\* (key, canonical document) it is computed from.
hash_operation_data(data) ==
    [key |-> secret_key,
     msg |-> [tercero |-> data.tercero,
              fecha |-> data.fecha,
              caja |-> data.caja,
              aplicaciones |->
                  [i \in 1..Len(data.aplicaciones) |->
                      [funcional |-> data.aplicaciones[i].funcional,
                       economica |-> data.aplicaciones[i].economica,
                       importe |-> PyStr(data.aplicaciones[i].importe)]]]]

----------------------------------------------------------------------------
(* DuplicateConfirmationManager *)

NoToken == 0            \* token_id None or ""
TokenIds == 1..MaxTokens

Restrict(f, S) == [x \in S |-> f[x]]

ConfirmationToken(id, h, t, tercero) ==
    [token_id |-> id, operation_hash |-> h, created_at |-> t,
     expires_at |-> t + token_lifetime, used |-> FALSE, tercero |-> tercero]

\* Variant: the sweep also removes a token at its expiry time.
cleanup_expired_tokens_AtExpiry(toks, lc, t) ==
    IF t - lc < cleanup_interval
    THEN [tokens |-> toks, last_cleanup |-> lc]
    ELSE [tokens |-> Restrict(toks, {id \in DOMAIN toks : ~(t >= toks[id].expires_at)}),
          last_cleanup |-> t]

\* _cleanup_expired_tokens
cleanup_expired_tokens(toks, lc, t) ==
    IF t - lc < cleanup_interval
    THEN [tokens |-> toks, last_cleanup |-> lc]
    ELSE [tokens |-> Restrict(toks, {id \in DOMAIN toks : ~(t > toks[id].expires_at)}),
          last_cleanup |-> t]

\* Variant: a new token replaces the tokens issued earlier for the same
\* operation.
generate_token_PerOperation(toks, lc, id, data, t) ==
    LET token == ConfirmationToken(id, hash_operation_data(data), t, data.tercero)
        others == {x \in DOMAIN toks : toks[x].operation_hash # token.operation_hash}
        stored == [x \in others \cup {id} |-> IF x = id THEN token ELSE toks[x]]
    IN  cleanup_expired_tokens(stored, lc, t)

\* generate_token: store the new token, then sweep
generate_token(toks, lc, id, data, t) ==
    LET token == ConfirmationToken(id, hash_operation_data(data), t, data.tercero)
        stored == [x \in DOMAIN toks \cup {id} |-> IF x = id THEN token ELSE toks[x]]
    IN  cleanup_expired_tokens(stored, lc, t)

Fail(reason, toks) == [ok |-> FALSE, reason |-> reason, tokens |-> toks]

\* Variant: success does not consume the token.
validate_token_NoMark(toks, token_id, data, t) ==
    IF token_id = NoToken THEN Fail("MissingToken", toks)
    ELSE IF token_id \notin DOMAIN toks THEN Fail("UnknownToken", toks)
    ELSE IF toks[token_id].used THEN Fail("AlreadyUsed", toks)
    ELSE IF t > toks[token_id].expires_at THEN Fail("Expired", toks)
    ELSE IF hash_operation_data(data) # toks[token_id].operation_hash
         THEN Fail("FingerprintMismatch", toks)
    ELSE [ok |-> TRUE, reason |-> "", tokens |-> toks]

\* Variant: the expiry check is left out.
validate_token_NoExpiry(toks, token_id, data, t) ==
    IF token_id = NoToken THEN Fail("MissingToken", toks)
    ELSE IF token_id \notin DOMAIN toks THEN Fail("UnknownToken", toks)
    ELSE IF toks[token_id].used THEN Fail("AlreadyUsed", toks)
    ELSE IF hash_operation_data(data) # toks[token_id].operation_hash
         THEN Fail("FingerprintMismatch", toks)
    ELSE [ok |-> TRUE, reason |-> "",
          tokens |-> [toks EXCEPT ![token_id].used = TRUE]]

\* Variant: expiry is checked before the used flag.
validate_token_ExpiryFirst(toks, token_id, data, t) ==
    IF token_id = NoToken THEN Fail("MissingToken", toks)
    ELSE IF token_id \notin DOMAIN toks THEN Fail("UnknownToken", toks)
    ELSE IF t > toks[token_id].expires_at THEN Fail("Expired", toks)
    ELSE IF toks[token_id].used THEN Fail("AlreadyUsed", toks)
    ELSE IF hash_operation_data(data) # toks[token_id].operation_hash
         THEN Fail("FingerprintMismatch", toks)
    ELSE [ok |-> TRUE, reason |-> "",
          tokens |-> [toks EXCEPT ![token_id].used = TRUE]]

\* Variant: the token is consumed before the payload is compared.
validate_token_MarkEarly(toks, token_id, data, t) ==
    IF token_id = NoToken THEN Fail("MissingToken", toks)
    ELSE IF token_id \notin DOMAIN toks THEN Fail("UnknownToken", toks)
    ELSE IF toks[token_id].used THEN Fail("AlreadyUsed", toks)
    ELSE IF t > toks[token_id].expires_at THEN Fail("Expired", toks)
    ELSE IF hash_operation_data(data) # toks[token_id].operation_hash
         THEN Fail("FingerprintMismatch", [toks EXCEPT ![token_id].used = TRUE])
    ELSE [ok |-> TRUE, reason |-> "",
          tokens |-> [toks EXCEPT ![token_id].used = TRUE]]

\* Variant: the payload is compared before the expiry check.
validate_token_HashFirst(toks, token_id, data, t) ==
    IF token_id = NoToken THEN Fail("MissingToken", toks)
    ELSE IF token_id \notin DOMAIN toks THEN Fail("UnknownToken", toks)
    ELSE IF toks[token_id].used THEN Fail("AlreadyUsed", toks)
    ELSE IF hash_operation_data(data) # toks[token_id].operation_hash
         THEN Fail("FingerprintMismatch", toks)
    ELSE IF t > toks[token_id].expires_at THEN Fail("Expired", toks)
    ELSE [ok |-> TRUE, reason |-> "",
          tokens |-> [toks EXCEPT ![token_id].used = TRUE]]

\* Variant: the token is expired from its expiry time on.
validate_token_ExpiryInclusive(toks, token_id, data, t) ==
    IF token_id = NoToken THEN Fail("MissingToken", toks)
    ELSE IF token_id \notin DOMAIN toks THEN Fail("UnknownToken", toks)
    ELSE IF toks[token_id].used THEN Fail("AlreadyUsed", toks)
    ELSE IF t >= toks[token_id].expires_at THEN Fail("Expired", toks)
    ELSE IF hash_operation_data(data) # toks[token_id].operation_hash
         THEN Fail("FingerprintMismatch", toks)
    ELSE [ok |-> TRUE, reason |-> "",
          tokens |-> [toks EXCEPT ![token_id].used = TRUE]]

\* validate_token
validate_token(toks, token_id, data, t) ==
    IF token_id = NoToken THEN Fail("MissingToken", toks)
    ELSE IF token_id \notin DOMAIN toks THEN Fail("UnknownToken", toks)
    ELSE IF toks[token_id].used THEN Fail("AlreadyUsed", toks)
    ELSE IF t > toks[token_id].expires_at THEN Fail("Expired", toks)
    ELSE IF hash_operation_data(data) # toks[token_id].operation_hash
         THEN Fail("FingerprintMismatch", toks)
    ELSE [ok |-> TRUE, reason |-> "",
          tokens |-> [toks EXCEPT ![token_id].used = TRUE]]

----------------------------------------------------------------------------
(* SpecTok: the manager driven by one caller *)

NoOp == [op |-> "none", id |-> NoToken, data |-> ScenarioPayload,
         ok |-> FALSE, reason |-> "", prior |-> FALSE]

\* The token manager as constructed.
TokInit ==
    /\ tokens = <<>>
    /\ last_cleanup = 0
    /\ nextId = 1
    /\ issued = <<>>
    /\ succeeded = {}
    /\ lastOp = NoOp

\* No thread is running, and the limiter is not in use.
TokThreadsIdle == vt = <<>> /\ heapUsed = <<>>
CfgIdle == file = <<>> /\ saves = <<>> /\ loadOp = <<>> /\ sv = <<>>
FlowIdle == audit = <<>> /\ attempt = <<>>
RLIdle ==
    config = <<>> /\ operations = <<>> /\ calls = <<>> /\ rt = <<>> /\ peer = <<>>

InitTok ==
    /\ now = 0
    /\ TokInit
    /\ TokThreadsIdle
    /\ RLIdle
    /\ CfgIdle
    /\ FlowIdle

\* A generate_token call at the current time.
Generate(data) ==
    /\ nextId <= MaxTokens
    /\ LET r == generate_token(tokens, last_cleanup, nextId, data, now)
       IN  /\ tokens' = r.tokens
           /\ last_cleanup' = r.last_cleanup
           /\ issued' = [x \in DOMAIN issued \cup {nextId} |->
                            IF x = nextId
                            THEN [data |-> data,
                                  operation_hash |-> hash_operation_data(data),
                                  expires_at |-> now + token_lifetime]
                            ELSE issued[x]]
           /\ lastOp' = [op |-> "generate", id |-> nextId, data |-> data,
                         ok |-> TRUE, reason |-> "", prior |-> FALSE]
    /\ nextId' = nextId + 1
    /\ UNCHANGED <<now, succeeded>>

GenerateToken(data) ==
    /\ Generate(data)
    /\ UNCHANGED <<tokThreadVars, rlVars, rt, cfgVars, flowVars>>

\* A validate_token call at the current time.
ValidateToken(token_id, data) ==
    /\ LET r == validate_token(tokens, token_id, data, now)
       IN  /\ tokens' = r.tokens
           /\ succeeded' = IF r.ok THEN succeeded \cup {token_id} ELSE succeeded
           /\ lastOp' = [op |-> "validate", id |-> token_id, data |-> data,
                         ok |-> r.ok, reason |-> r.reason,
                         prior |-> token_id \in succeeded]
    /\ UNCHANGED <<now, last_cleanup, nextId, issued, tokThreadVars, rlVars, rt, cfgVars, flowVars>>

\* The clock advances by d seconds, up to limit.
Advance(d, limit) ==
    /\ now + d <= limit
    /\ now' = now + d

Tick(d) ==
    /\ Advance(d, MaxTicks * 60)
    /\ lastOp' = NoOp
    /\ UNCHANGED <<tokens, last_cleanup, nextId, issued, succeeded, tokThreadVars, rlVars, rt, cfgVars, flowVars>>

NextTok ==
    \/ \E data \in TokPayloads : GenerateToken(data)
    \/ \E id \in {NoToken} \cup TokenIds, data \in TokPayloads : ValidateToken(id, data)
    \/ \E d \in ClockSteps : Tick(d)

SpecTok == InitTok /\ [][NextTok]_vars

----------------------------------------------------------------------------
(* SpecTamper: one token, issued for any payload, presented right away with
   the payload or with a mutation of it *)

TamperGenerate(data) ==
    /\ nextId = 1
    /\ GenerateToken(data)

TamperValidate ==
    /\ 1 \in DOMAIN issued
    /\ \E data \in {issued[1].data} \cup Mutations(issued[1].data) :
          ValidateToken(1, data)

NextTamper ==
    \/ \E data \in Payloads : TamperGenerate(data)
    \/ TamperValidate

SpecTamper == InitTok /\ [][NextTamper]_vars

----------------------------------------------------------------------------
(* SpecTokConc: validate_token called from NumThreads threads. The method
   takes no lock, so a thread can be preempted between any two of its reads
   and writes of the shared table; each action below is one of them. *)

Threads == 1..NumThreads

VIdle == [pc |-> "idle", id |-> NoToken, data |-> ScenarioPayload,
          ok |-> FALSE, reason |-> ""]

InitTokConc ==
    /\ now = 0
    /\ TokInit
    /\ vt = [th \in Threads |-> VIdle]
    /\ heapUsed = <<>>
    /\ RLIdle
    /\ CfgIdle
    /\ FlowIdle

VFrame == UNCHANGED <<now, last_cleanup, nextId, issued, lastOp, rlVars, rt, cfgVars, flowVars>>

\* The thread returns (False, reason).
VFail(th, reason) ==
    vt' = [vt EXCEPT ![th].pc = "done", ![th].ok = FALSE, ![th].reason = reason]

VGoto(th, pc) == vt' = [vt EXCEPT ![th].pc = pc]

\* generate_token, run by a thread that is not preempted
ConcGenerate(data) ==
    /\ Generate(data)
    /\ heapUsed' = [x \in DOMAIN heapUsed \cup {nextId} |->
                        IF x = nextId THEN FALSE ELSE heapUsed[x]]
    /\ UNCHANGED <<vt, rlVars, rt, cfgVars, flowVars>>

ConcTick ==
    /\ Advance(token_lifetime, 2 * token_lifetime)
    /\ UNCHANGED <<tokVars, tokThreadVars, rlVars, rt, cfgVars, flowVars>>

\* validate_token(token_id, operation_data) is called
VCall(th, token_id, data) ==
    /\ vt[th].pc \in {"idle", "done"}
    /\ vt' = [vt EXCEPT ![th] = [pc |-> "exists", id |-> token_id, data |-> data,
                                 ok |-> FALSE, reason |-> ""]]
    /\ UNCHANGED <<tokens, succeeded, heapUsed>>
    /\ VFrame

\* if not token_id ... if token_id not in self.tokens
VCheckExists(th) ==
    /\ vt[th].pc = "exists"
    /\ IF vt[th].id = NoToken THEN VFail(th, "MissingToken")
       ELSE IF vt[th].id \notin DOMAIN tokens THEN VFail(th, "UnknownToken")
       ELSE VGoto(th, "load")
    /\ UNCHANGED <<tokens, succeeded, heapUsed>>
    /\ VFrame

\* token = self.tokens[token_id]
VLoad(th) ==
    /\ vt[th].pc = "load"
    /\ IF vt[th].id \notin DOMAIN tokens THEN VFail(th, "KeyError")
       ELSE VGoto(th, "used")
    /\ UNCHANGED <<tokens, succeeded, heapUsed>>
    /\ VFrame

\* if token.used
VCheckUsed(th) ==
    /\ vt[th].pc = "used"
    /\ IF heapUsed[vt[th].id] THEN VFail(th, "AlreadyUsed")
       ELSE VGoto(th, "expired")
    /\ UNCHANGED <<tokens, succeeded, heapUsed>>
    /\ VFrame

\* now = time.time(); if now > token.expires_at
VCheckExpired(th) ==
    /\ vt[th].pc = "expired"
    /\ IF now > issued[vt[th].id].expires_at THEN VFail(th, "Expired")
       ELSE VGoto(th, "hash")
    /\ UNCHANGED <<tokens, succeeded, heapUsed>>
    /\ VFrame

\* if operation_hash != token.operation_hash
VCheckHash(th) ==
    /\ vt[th].pc = "hash"
    /\ IF hash_operation_data(vt[th].data) # issued[vt[th].id].operation_hash
       THEN VFail(th, "FingerprintMismatch")
       ELSE VGoto(th, "mark")
    /\ UNCHANGED <<tokens, succeeded, heapUsed>>
    /\ VFrame

\* token.used = True
VMark(th) ==
    /\ vt[th].pc = "mark"
    /\ heapUsed' = [heapUsed EXCEPT ![vt[th].id] = TRUE]
    /\ tokens' = IF vt[th].id \in DOMAIN tokens
                 THEN [tokens EXCEPT ![vt[th].id].used = TRUE]
                 ELSE tokens
    /\ VGoto(th, "return")
    /\ UNCHANGED succeeded
    /\ VFrame

\* return True, ""
VReturn(th) ==
    /\ vt[th].pc = "return"
    /\ vt' = [vt EXCEPT ![th].pc = "done", ![th].ok = TRUE, ![th].reason = ""]
    /\ succeeded' = succeeded \cup {vt[th].id}
    /\ UNCHANGED <<tokens, heapUsed>>
    /\ VFrame

NextTokConc ==
    \/ \E data \in TokPayloads : ConcGenerate(data)
    \/ ConcTick
    \/ \E th \in Threads, id \in {NoToken} \cup TokenIds, data \in TokPayloads :
          VCall(th, id, data)
    \/ \E th \in Threads : VCheckExists(th)
    \/ \E th \in Threads : VLoad(th)
    \/ \E th \in Threads : VCheckUsed(th)
    \/ \E th \in Threads : VCheckExpired(th)
    \/ \E th \in Threads : VCheckHash(th)
    \/ \E th \in Threads : VMark(th)
    \/ \E th \in Threads : VReturn(th)

SpecTokConc == InitTokConc /\ [][NextTokConc]_vars

----------------------------------------------------------------------------
(* MultiWindowRateLimiter *)

RateLimitWindow(max_operations, time_window_seconds, name) ==
    [max_operations |-> max_operations,
     time_window_seconds |-> time_window_seconds,
     name |-> name]

NoBusinessHours == [start_hour |-> 0, end_hour |-> 0, timezone |-> "None"]

BusinessHours(start_hour, end_hour, timezone) ==
    [start_hour |-> start_hour, end_hour |-> end_hour, timezone |-> timezone]

RateLimitConfig(windows, business_hours) ==
    [windows |-> windows, business_hours |-> business_hours]

\* The time zones ZoneInfo resolves, with their offset from UTC in seconds.
ZoneOffset == [tz \in {"UTC", "Europe/Madrid"} |-> IF tz = "UTC" THEN 0 ELSE 3600]

\* datetime.fromtimestamp(timestamp, tz=tz).hour
LocalHour(timestamp, tz) == ((timestamp + ZoneOffset[tz]) \div 3600) % 24

\* Variant: end_hour is still inside business hours.
check_business_hours_EndInclusive(cfg, timestamp) ==
    IF cfg.business_hours = NoBusinessHours THEN TRUE
    ELSE IF cfg.business_hours.timezone \notin DOMAIN ZoneOffset THEN TRUE
    ELSE LET current_hour == LocalHour(timestamp, cfg.business_hours.timezone)
         IN  ~(current_hour < cfg.business_hours.start_hour
               \/ current_hour > cfg.business_hours.end_hour)

\* Variant: a time zone that cannot be resolved closes the limiter.
check_business_hours_FailClosed(cfg, timestamp) ==
    IF cfg.business_hours = NoBusinessHours THEN TRUE
    ELSE IF cfg.business_hours.timezone \notin DOMAIN ZoneOffset THEN FALSE
    ELSE LET current_hour == LocalHour(timestamp, cfg.business_hours.timezone)
         IN  ~(current_hour < cfg.business_hours.start_hour
               \/ current_hour >= cfg.business_hours.end_hour)

\* Variant: a range with start_hour > end_hour runs over midnight.
check_business_hours_Overnight(cfg, timestamp) ==
    IF cfg.business_hours = NoBusinessHours THEN TRUE
    ELSE IF cfg.business_hours.timezone \notin DOMAIN ZoneOffset THEN TRUE
    ELSE LET current_hour == LocalHour(timestamp, cfg.business_hours.timezone)
         IN  IF cfg.business_hours.start_hour > cfg.business_hours.end_hour
             THEN current_hour >= cfg.business_hours.start_hour
                  \/ current_hour < cfg.business_hours.end_hour
             ELSE ~(current_hour < cfg.business_hours.start_hour
                    \/ current_hour >= cfg.business_hours.end_hour)

\* _check_business_hours
check_business_hours(cfg, timestamp) ==
    IF cfg.business_hours = NoBusinessHours THEN TRUE
    ELSE IF cfg.business_hours.timezone \notin DOMAIN ZoneOffset THEN TRUE
    ELSE LET current_hour == LocalHour(timestamp, cfg.business_hours.timezone)
         IN  ~(current_hour < cfg.business_hours.start_hour
               \/ current_hour >= cfg.business_hours.end_hour)

\* [ts for ts in self.operations if now - ts < window.time_window_seconds]
recent_ops(ops, t, seconds) ==
    SelectSeq(ops, LAMBDA ts : t - ts < seconds)

\* max(w.time_window_seconds for w in self.config.windows)
max_window(windows) ==
    CHOOSE m \in {windows[i].time_window_seconds : i \in DOMAIN windows} :
        \A i \in DOMAIN windows : windows[i].time_window_seconds <= m

\* Variant: a window is exceeded only above max_operations.
RECURSIVE first_exceeded_Above(_, _, _, _)
first_exceeded_Above(windows, ops, t, i) ==
    IF i > Len(windows) THEN 0
    ELSE IF Len(recent_ops(ops, t, windows[i].time_window_seconds))
                > windows[i].max_operations
         THEN i
         ELSE first_exceeded_Above(windows, ops, t, i + 1)

\* Variant: every window is evaluated and the last exceeded one is reported.
RECURSIVE first_exceeded_Last(_, _, _, _)
first_exceeded_Last(windows, ops, t, i) ==
    IF i > Len(windows) THEN 0
    ELSE LET later == first_exceeded_Last(windows, ops, t, i + 1)
         IN  IF later # 0 THEN later
             ELSE IF Len(recent_ops(ops, t, windows[i].time_window_seconds))
                         >= windows[i].max_operations
                  THEN i
                  ELSE 0

\* for window in self.config.windows: the index of the window the loop
\* returns at, from window i on; 0 when the loop runs to its end.
RECURSIVE first_exceeded(_, _, _, _)
first_exceeded(windows, ops, t, i) ==
    IF i > Len(windows) THEN 0
    ELSE IF Len(recent_ops(ops, t, windows[i].time_window_seconds))
                >= windows[i].max_operations
         THEN i
         ELSE first_exceeded(windows, ops, t, i + 1)

Denied(reason, window, ops) ==
    [ok |-> FALSE, reason |-> reason, window |-> window, operations |-> ops]

\* Variant: an attempt outside business hours is recorded.
check_rate_limit_RecordOutside(cfg, ops, t) ==
    IF ~check_business_hours(cfg, t)
    THEN Denied("OutsideBusinessHours", 0, Append(ops, t))
    ELSE IF Len(cfg.windows) = 0 THEN Denied("ValueError", 0, ops)
    ELSE LET pruned == SelectSeq(ops, LAMBDA ts : t - ts < max_window(cfg.windows))
             i == first_exceeded(cfg.windows, pruned, t, 1)
         IN  IF i # 0 THEN Denied("WindowExceeded", i, pruned)
             ELSE [ok |-> TRUE, reason |-> "", window |-> 0,
                   operations |-> Append(pruned, t)]

\* Variant: a denied attempt is recorded too.
check_rate_limit_RecordDenied(cfg, ops, t) ==
    IF ~check_business_hours(cfg, t) THEN Denied("OutsideBusinessHours", 0, ops)
    ELSE IF Len(cfg.windows) = 0 THEN Denied("ValueError", 0, ops)
    ELSE LET pruned == SelectSeq(ops, LAMBDA ts : t - ts < max_window(cfg.windows))
             i == first_exceeded(cfg.windows, pruned, t, 1)
         IN  IF i # 0 THEN Denied("WindowExceeded", i, Append(pruned, t))
             ELSE [ok |-> TRUE, reason |-> "", window |-> 0,
                   operations |-> Append(pruned, t)]

\* Variant: the log is pruned by the first window instead of the largest.
check_rate_limit_PruneFirst(cfg, ops, t) ==
    IF ~check_business_hours(cfg, t) THEN Denied("OutsideBusinessHours", 0, ops)
    ELSE IF Len(cfg.windows) = 0 THEN Denied("ValueError", 0, ops)
    ELSE LET pruned == SelectSeq(ops, LAMBDA ts : t - ts < cfg.windows[1].time_window_seconds)
             i == first_exceeded(cfg.windows, pruned, t, 1)
         IN  IF i # 0 THEN Denied("WindowExceeded", i, pruned)
             ELSE [ok |-> TRUE, reason |-> "", window |-> 0,
                   operations |-> Append(pruned, t)]

\* check_rate_limit
check_rate_limit(cfg, ops, t) ==
    IF ~check_business_hours(cfg, t) THEN Denied("OutsideBusinessHours", 0, ops)
    ELSE IF Len(cfg.windows) = 0 THEN Denied("ValueError", 0, ops)
    ELSE LET pruned == SelectSeq(ops, LAMBDA ts : t - ts < max_window(cfg.windows))
             i == first_exceeded(cfg.windows, pruned, t, 1)
         IN  IF i # 0 THEN Denied("WindowExceeded", i, pruned)
             ELSE [ok |-> TRUE, reason |-> "", window |-> 0,
                   operations |-> Append(pruned, t)]

----------------------------------------------------------------------------
(* SpecRL: the limiter driven by one caller *)

PolicyScenario == RateLimitConfig(<<RateLimitWindow(2, 60, "h")>>, NoBusinessHours)
PolicyOne == RateLimitConfig(<<RateLimitWindow(1, 90, "h")>>, NoBusinessHours)
PolicyTwo ==
    RateLimitConfig(<<RateLimitWindow(2, 60, "short_limit"),
                      RateLimitWindow(3, 120, "medium_limit")>>, NoBusinessHours)
PolicyTwoReversed ==
    RateLimitConfig(<<RateLimitWindow(3, 120, "medium_limit"),
                      RateLimitWindow(2, 60, "short_limit")>>, NoBusinessHours)
PolicyTightSecond ==
    RateLimitConfig(<<RateLimitWindow(3, 60, "short_limit"),
                      RateLimitWindow(2, 120, "medium_limit")>>, NoBusinessHours)

RLPolicies == {PolicyScenario, PolicyOne, PolicyTwo, PolicyTwoReversed, PolicyTightSecond}

RLClockSteps == {30}

TokIdle == TokInit /\ TokThreadsIdle

InitRL ==
    /\ now = 0
    /\ TokIdle
    /\ config \in RLPolicies
    /\ operations = <<>>
    /\ calls = <<>>
    /\ rt = <<>>
    /\ peer = <<>>
    /\ CfgIdle
    /\ FlowIdle

\* A check_rate_limit call at the current time.
CheckRateLimit(tercero) ==
    /\ Len(calls) < MaxCalls
    /\ LET r == check_rate_limit(config, operations, now)
       IN  /\ operations' = r.operations
           /\ calls' = Append(calls, [at |-> now, tercero |-> tercero, ok |-> r.ok,
                                      reason |-> r.reason, window |-> r.window])
    /\ UNCHANGED <<now, config, rt, peer, tokVars, tokThreadVars, cfgVars, flowVars>>

RLTick(d) ==
    /\ Advance(d, MaxRLTicks * 30)
    /\ UNCHANGED <<rlVars, rt, tokVars, tokThreadVars, cfgVars, flowVars>>

NextRL ==
    \/ \E tercero \in Terceros : CheckRateLimit(tercero)
    \/ \E d \in RLClockSteps : RLTick(d)

SpecRL == InitRL /\ [][NextRL]_vars

----------------------------------------------------------------------------
(* SpecRLConc: check_rate_limit called from NumThreads threads. The method
   takes no lock; each action below is one read or write of self.operations. *)

RIdle == [pc |-> "idle", tercero |-> "A1", t |-> 0, pruned |-> <<>>, i |-> 1]

InitRLConc ==
    /\ now = 0
    /\ TokIdle
    /\ config \in {PolicyScenario, PolicyTwo}
    /\ operations = <<>>
    /\ calls = <<>>
    /\ rt = [th \in Threads |-> RIdle]
    /\ peer = <<>>
    /\ CfgIdle
    /\ FlowIdle

RFrame == UNCHANGED <<now, config, peer, tokVars, tokThreadVars, cfgVars, flowVars>>

Running == {th \in Threads : rt[th].pc \notin {"idle", "done"}}

\* The thread returns; the call joins the history.
RDone(th, ok, reason, window) ==
    /\ rt' = [rt EXCEPT ![th].pc = "done"]
    /\ calls' = Append(calls, [at |-> rt[th].t, tercero |-> rt[th].tercero, ok |-> ok,
                               reason |-> reason, window |-> window])

\* now = time.time() and the business-hours check
RCall(th, tercero) ==
    /\ rt[th].pc \in {"idle", "done"}
    /\ Len(calls) + Cardinality(Running) < MaxCalls
    /\ IF ~check_business_hours(config, now)
       THEN /\ rt' = [rt EXCEPT ![th].pc = "done", ![th].t = now, ![th].tercero = tercero]
            /\ calls' = Append(calls, [at |-> now, tercero |-> tercero, ok |-> FALSE,
                                       reason |-> "OutsideBusinessHours", window |-> 0])
       ELSE /\ rt' = [rt EXCEPT ![th] = [pc |-> "prune_read", tercero |-> tercero,
                                         t |-> now, pruned |-> <<>>, i |-> 1]]
            /\ UNCHANGED calls
    /\ UNCHANGED operations
    /\ RFrame

\* [ts for ts in self.operations if now - ts < max_window]
RPruneRead(th) ==
    /\ rt[th].pc = "prune_read"
    /\ rt' = [rt EXCEPT ![th].pc = "prune_store",
                        ![th].pruned = SelectSeq(operations,
                            LAMBDA ts : rt[th].t - ts < max_window(config.windows))]
    /\ UNCHANGED <<operations, calls>>
    /\ RFrame

\* self.operations = ...
RPruneStore(th) ==
    /\ rt[th].pc = "prune_store"
    /\ operations' = rt[th].pruned
    /\ rt' = [rt EXCEPT ![th].pc = "check", ![th].i = 1]
    /\ UNCHANGED calls
    /\ RFrame

\* one pass of: for window in self.config.windows
RCheckWindow(th) ==
    /\ rt[th].pc = "check"
    /\ LET w == config.windows[rt[th].i]
       IN  IF Len(recent_ops(operations, rt[th].t, w.time_window_seconds))
                >= w.max_operations
           THEN RDone(th, FALSE, "WindowExceeded", rt[th].i)
           ELSE /\ rt' = [rt EXCEPT ![th].i = rt[th].i + 1,
                                    ![th].pc = IF rt[th].i = Len(config.windows)
                                               THEN "append" ELSE "check"]
                /\ UNCHANGED calls
    /\ UNCHANGED operations
    /\ RFrame

\* self.operations.append(now)
RAppend(th) ==
    /\ rt[th].pc = "append"
    /\ operations' = Append(operations, rt[th].t)
    /\ rt' = [rt EXCEPT ![th].pc = "return"]
    /\ UNCHANGED calls
    /\ RFrame

\* return True, ""
RReturn(th) ==
    /\ rt[th].pc = "return"
    /\ RDone(th, TRUE, "", 0)
    /\ UNCHANGED operations
    /\ RFrame

RConcTick(d) ==
    /\ Advance(d, 2 * d)
    /\ UNCHANGED <<rlVars, rt, tokVars, tokThreadVars, cfgVars, flowVars>>

NextRLConc ==
    \/ \E th \in Threads, tercero \in {"A1"} : RCall(th, tercero)
    \/ \E th \in Threads : RPruneRead(th)
    \/ \E th \in Threads : RPruneStore(th)
    \/ \E th \in Threads : RCheckWindow(th)
    \/ \E th \in Threads : RAppend(th)
    \/ \E th \in Threads : RReturn(th)
    \/ \E d \in RLClockSteps : RConcTick(d)

SpecRLConc == InitRLConc /\ [][NextRLConc]_vars

----------------------------------------------------------------------------
(* SpecFlow: operations submitted to the processors. execute prepares the
   data and calls the processor's process_operation_form; form filling in
   the SICAL windows is the one step enter_operation_data. *)

MaxAttempts == 3        \* execute calls per behaviour

Processors == {"ADO220", "PMP450"}
DuplicatePolicies == {"force_create", "check_only", "abort_on_duplicate"}

\* create_operation_data: the fields the fingerprint reads; importe becomes
\* str(importe), fecha and caja of the model's payloads are in SICAL form.
create_operation_data(data) ==
    [data EXCEPT !.aplicaciones =
        [i \in DOMAIN data.aplicaciones |->
            [data.aplicaciones[i] EXCEPT
                !.importe = PyString(PyStr(data.aplicaciones[i].importe))]]]

\* The audit_entry dict
audit_entry(data, token_id, token_valid, error_message, t) ==
    [timestamp |-> t, token_valid |-> token_valid, tercero |-> data.tercero,
     fecha |-> data.fecha, token |-> token_id,
     error |-> IF token_valid THEN "" ELSE error_message]

\* audit_log_force_create. The prepared data always has the key
\* 'duplicate_confirmation_token', so a missing token is None and
\* None[:16] raises TypeError before anything is logged.
audit_log_force_create(log, data, token_id, token_valid, error_message, t, file_ok) ==
    IF token_id = NoToken THEN [raised |-> TRUE, log |-> log]
    ELSE LET e == audit_entry(data, token_id, token_valid, error_message, t)
         IN  [raised |-> FALSE,
              log |-> [logger |-> Append(log.logger, e),
                       file |-> IF file_ok THEN Append(log.file, e) ELSE log.file]]

Attempt(processor, policy, token_id, status, error, trace, valid, reason, file_ok) ==
    [n |-> attempt.n + 1, processor |-> processor, policy |-> policy,
     token |-> token_id, status |-> status, error |-> error, trace |-> trace,
     valid |-> valid, reason |-> reason, file_ok |-> file_ok]

InitFlow ==
    /\ now = 0
    /\ TokIdle
    /\ RLIdle
    /\ CfgIdle
    /\ audit = [logger |-> <<>>, file |-> <<>>]
    /\ attempt = [n |-> 0, processor |-> "none", policy |-> "none", token |-> NoToken,
                  status |-> "PENDING", error |-> "", trace |-> <<>>, valid |-> FALSE,
                  reason |-> "", file_ok |-> TRUE]

FlowFrame == UNCHANGED <<tokThreadVars, rlVars, rt, cfgVars>>

\* PMP450Processor.process_operation_form with duplicate_policy
\* 'force_create': validate_token, audit_log_force_create, then the form.
ForceCreatePMP450(token_id, data, file_ok) ==
    LET sical_data == create_operation_data(data)
        r == validate_token(tokens, token_id, sical_data, now)
        a == audit_log_force_create(audit, sical_data, token_id, r.ok, r.reason,
                                    now, file_ok)
    IN  /\ tokens' = r.tokens
        /\ succeeded' = IF r.ok THEN succeeded \cup {token_id} ELSE succeeded
        /\ lastOp' = [op |-> "validate", id |-> token_id, data |-> sical_data,
                      ok |-> r.ok, reason |-> r.reason,
                      prior |-> token_id \in succeeded]
        /\ audit' = a.log
        /\ attempt' =
              IF a.raised
              THEN Attempt("PMP450", "force_create", token_id, "FAILED", "TypeError",
                           <<"validate_token", "audit_log_force_create">>,
                           r.ok, r.reason, file_ok)
              ELSE IF ~r.ok
              THEN Attempt("PMP450", "force_create", token_id, "FAILED", r.reason,
                           <<"validate_token", "audit_log_force_create">>,
                           r.ok, r.reason, file_ok)
              ELSE Attempt("PMP450", "force_create", token_id, "COMPLETED", "",
                           <<"validate_token", "audit_log_force_create",
                             "enter_operation_data">>,
                           r.ok, r.reason, file_ok)
        /\ UNCHANGED <<now, last_cleanup, nextId, issued>>
        /\ FlowFrame

\* PMP450Processor.process_operation_form with 'check_only' or
\* 'abort_on_duplicate': _check_for_duplicates issues a token when the
\* search finds similar records.
CheckDuplicatesPMP450(policy, data, found) ==
    /\ policy \in {"check_only", "abort_on_duplicate"}
    /\ IF found
       THEN /\ Generate(create_operation_data(data))
            /\ attempt' = Attempt("PMP450", policy, nextId, "P_DUPLICATED", "",
                                  <<"check_for_duplicates", "generate_token">>,
                                  FALSE, "", TRUE)
       ELSE /\ attempt' =
                  IF policy = "check_only"
                  THEN Attempt("PMP450", policy, NoToken, "IN_PROGRESS", "",
                               <<"check_for_duplicates">>, FALSE, "", TRUE)
                  ELSE Attempt("PMP450", policy, NoToken, "COMPLETED", "",
                               <<"check_for_duplicates", "enter_operation_data">>,
                               FALSE, "", TRUE)
            /\ lastOp' = NoOp
            /\ UNCHANGED <<now, tokens, last_cleanup, nextId, issued, succeeded>>
    /\ UNCHANGED audit
    /\ FlowFrame

\* ADO220Processor.process_operation_form: data entry and finalization,
\* whatever the duplicate_policy and the token.
ProcessADO220(policy, token_id, data) ==
    /\ attempt' = Attempt("ADO220", policy, token_id, "COMPLETED", "",
                          <<"enter_operation_data">>, FALSE, "", TRUE)
    /\ lastOp' = NoOp
    /\ UNCHANGED <<now, tokens, last_cleanup, nextId, issued, succeeded, audit>>
    /\ FlowFrame

\* SicalOperationProcessor.execute(operation_data)
Execute(processor, policy, token_id, data, found, file_ok) ==
    /\ attempt.n < MaxAttempts
    /\ IF processor = "ADO220" THEN ProcessADO220(policy, token_id, data)
       ELSE IF policy = "force_create" THEN ForceCreatePMP450(token_id, data, file_ok)
       ELSE CheckDuplicatesPMP450(policy, data, found)

FlowTick ==
    /\ Advance(token_lifetime, 2 * token_lifetime)
    /\ UNCHANGED <<tokVars, tokThreadVars, rlVars, rt, cfgVars, flowVars>>

NextFlow ==
    \/ \E processor \in Processors, policy \in DuplicatePolicies,
          token_id \in {NoToken} \cup TokenIds, data \in TokPayloads,
          found \in BOOLEAN, file_ok \in BOOLEAN :
              Execute(processor, policy, token_id, data, found, file_ok)
    \/ FlowTick

SpecFlow == InitFlow /\ [][NextFlow]_vars

----------------------------------------------------------------------------
(* Claims about the token manager: C1, C4, C5, C6 under SpecTok, C3 under
   SpecTamper *)

\* The last step was a validate_token call for an issued token with the
\* payload the token was issued for.
ValidatedWithIssuedPayload ==
    /\ lastOp.op = "validate"
    /\ lastOp.id \in DOMAIN issued
    /\ hash_operation_data(lastOp.data) = issued[lastOp.id].operation_hash

\* C1: once validate_token has returned success for a token id, no later
\* validate_token call with that id returns success, whatever the payload,
\* the remaining lifetime and the generate_token calls in between.
C1_NoSecondSuccess ==
    (lastOp.op = "validate" /\ lastOp.prior) => ~lastOp.ok

\* A second call with the matching payload while lifetime remains.
C1_Witness ==
    /\ ValidatedWithIssuedPayload
    /\ lastOp.prior
    /\ now < issued[lastOp.id].expires_at
    /\ ~lastOp.ok

\* The two sequences of line items differ by one item added.
OneItemAdded(short, long) ==
    /\ Len(long) = Len(short) + 1
    /\ \E k \in 1..Len(long) : RemoveAt(long, k) = short

\* Two importe values are the same value; with byStr, they have the same str().
SameImporte(x, y, byStr) == IF byStr THEN PyStr(x) = PyStr(y) ELSE x = y

\* The identity-bearing values in which P and Q differ, when they have the
\* same number of line items.
ValueDiffs(P, Q, byStr) ==
    {f \in {"tercero", "fecha", "caja"} : P[f] # Q[f]}
    \cup {<<i, f>> \in (1..Len(P.aplicaciones)) \X {"funcional", "economica"} :
            P.aplicaciones[i][f] # Q.aplicaciones[i][f]}
    \cup {<<i, "importe">> : i \in {j \in 1..Len(P.aplicaciones) :
            ~SameImporte(P.aplicaciones[j].importe, Q.aplicaciones[j].importe, byStr)}}

\* Q differs from P in exactly one identity-bearing value, or by one line
\* item added or removed.
DiffersInOne(P, Q, byStr) ==
    \/ /\ Len(P.aplicaciones) = Len(Q.aplicaciones)
       /\ Cardinality(ValueDiffs(P, Q, byStr)) = 1
    \/ /\ P.tercero = Q.tercero /\ P.fecha = Q.fecha /\ P.caja = Q.caja
       /\ \/ OneItemAdded(P.aplicaciones, Q.aplicaciones)
          \/ OneItemAdded(Q.aplicaciones, P.aplicaciones)

\* The last step presented token 1, unused and unexpired, with lastOp.data.
PresentedFresh ==
    /\ lastOp.op = "validate"
    /\ lastOp.id \in DOMAIN issued
    /\ ~lastOp.prior
    /\ now <= issued[lastOp.id].expires_at

\* C3 as stated: a payload that differs from the issued one in exactly one
\* identity-bearing value fails with FingerprintMismatch.
C3_AnyValueChange ==
    (PresentedFresh /\ DiffersInOne(issued[lastOp.id].data, lastOp.data, FALSE))
        => (~lastOp.ok /\ lastOp.reason = "FingerprintMismatch")

\* C3 amended: a payload that differs from the issued one in exactly one of
\* tercero, fecha, caja, or the funcional, economica or str(importe) of one
\* line item, or by one line item added or removed, fails with
\* FingerprintMismatch; importe values with the same str() are the same value.
C3_TamperDetected ==
    (PresentedFresh /\ DiffersInOne(issued[lastOp.id].data, lastOp.data, TRUE))
        => (~lastOp.ok /\ lastOp.reason = "FingerprintMismatch")

\* A payload with another caja has just been rejected.
C3_Witness ==
    /\ PresentedFresh
    /\ DiffersInOne(issued[lastOp.id].data, lastOp.data, TRUE)
    /\ lastOp.data.caja # issued[lastOp.id].data.caja
    /\ lastOp.reason = "FingerprintMismatch"

\* C4 as stated: a never-validated token presented with its payload after
\* expires_at is answered with Expired, also after a sweep.
C4_AlwaysExpired ==
    (ValidatedWithIssuedPayload /\ ~lastOp.prior /\ now > issued[lastOp.id].expires_at)
        => (~lastOp.ok /\ lastOp.reason = "Expired")

\* C4 amended: a never-validated token presented with its payload after
\* expires_at never succeeds; the answer is Expired while the token is still
\* in the table and UnknownToken once a sweep has removed it.
C4_ExpiredOrSwept ==
    (ValidatedWithIssuedPayload /\ ~lastOp.prior /\ now > issued[lastOp.id].expires_at)
        => /\ ~lastOp.ok
           /\ lastOp.reason = IF lastOp.id \in DOMAIN tokens THEN "Expired"
                              ELSE "UnknownToken"

\* An expired, never-validated token presented after the sweep removed it.
C4_Witness ==
    /\ ValidatedWithIssuedPayload
    /\ ~lastOp.prior
    /\ now > issued[lastOp.id].expires_at
    /\ lastOp.id \notin DOMAIN tokens
    /\ lastOp.reason = "UnknownToken"

C6_Step ==
    /\ \A id \in DOMAIN tokens' \ DOMAIN tokens : ~tokens'[id].used
    /\ \A id \in DOMAIN tokens' \cap DOMAIN tokens :
          tokens'[id].used # tokens[id].used =>
              /\ lastOp'.op = "validate" /\ lastOp'.ok /\ lastOp'.id = id
              /\ tokens'[id].used
    /\ (lastOp'.op = "validate" /\ ~lastOp'.ok) => tokens' = tokens
    /\ ( /\ lastOp.op = "validate" /\ lastOp.reason = "FingerprintMismatch"
         /\ lastOp'.op = "validate" /\ lastOp'.id = lastOp.id
         /\ hash_operation_data(lastOp'.data) = issued[lastOp.id].operation_hash )
       => lastOp'.ok

C6_UsedOnlyOnSuccess == [][C6_Step]_vars

\* A tampered attempt has just failed and the token is still unused.
C6_Witness ==
    /\ lastOp.op = "validate"
    /\ lastOp.reason = "FingerprintMismatch"
    /\ lastOp.id \in DOMAIN tokens
    /\ ~tokens[lastOp.id].used

----------------------------------------------------------------------------
(* Claims about the rate limiter: C7, C9, C10 under SpecRL; C2 and C8 under
   the specifications with threads *)

SingleWindow == Len(config.windows) = 1 /\ config.business_hours = NoBusinessHours

OkCalls == {j \in DOMAIN calls : calls[j].ok}

\* The successful calls with a timestamp in the span of the given length
\* that starts at call i.
OkWithin(i, seconds) ==
    {j \in OkCalls : calls[j].at >= calls[i].at /\ calls[j].at - calls[i].at < seconds}

\* C7: with one window of N operations over W seconds, the first N calls made
\* within W seconds succeed, the (N+1)th call within those W seconds fails with
\* WindowExceeded, and the successful calls in any span shorter than W
\* seconds never number more than N.
C7_WindowEnforced ==
    SingleWindow =>
        LET N == config.windows[1].max_operations
            W == config.windows[1].time_window_seconds
        IN  /\ \A k \in DOMAIN calls :
                  (k <= N /\ calls[k].at - calls[1].at < W) => calls[k].ok
            /\ (Len(calls) >= N + 1 /\ calls[N + 1].at - calls[1].at < W)
                  => (~calls[N + 1].ok /\ calls[N + 1].reason = "WindowExceeded")
            /\ \A i \in OkCalls : Cardinality(OkWithin(i, W)) <= N

\* N calls were allowed and the next one, still within W seconds, denied.
C7_Witness ==
    /\ SingleWindow
    /\ Len(calls) = config.windows[1].max_operations + 1
    /\ calls[Len(calls)].at - calls[1].at < config.windows[1].time_window_seconds
    /\ calls[Len(calls)].at > calls[1].at
    /\ calls[Len(calls)].reason = "WindowExceeded"

\* The successful calls made before call k.
OkBefore(k) == {j \in OkCalls : j < k}

\* The oldest of the N most recent successful calls made before call k.
OldestOfLast(k, N) ==
    CHOOSE j \in OkBefore(k) : Cardinality({i \in OkBefore(k) : i >= j}) = N

\* C9: once N calls have succeeded, a call fails while fewer than W seconds
\* have passed since the oldest of the last N successful calls and succeeds
\* once W seconds have passed since it, whatever calls were denied in between.
C9_WindowSlides ==
    SingleWindow =>
        LET N == config.windows[1].max_operations
            W == config.windows[1].time_window_seconds
        IN  \A k \in DOMAIN calls :
                Cardinality(OkBefore(k)) >= N =>
                    (calls[k].ok <=> calls[k].at - calls[OldestOfLast(k, N)].at >= W)

\* A call succeeds exactly W seconds after the oldest call of a full
\* window, after a call in between was denied.
C9_Witness ==
    /\ SingleWindow
    /\ Len(calls) >= config.windows[1].max_operations + 2
    /\ calls[Len(calls)].ok
    /\ ~calls[Len(calls) - 1].ok
    /\ calls[Len(calls)].at
           - calls[OldestOfLast(Len(calls), config.windows[1].max_operations)].at
         = config.windows[1].time_window_seconds

\* The windows whose count of log entries newer than now - windowSeconds has
\* reached maxOperations.
ExceededWindows ==
    {i \in DOMAIN config.windows :
        Cardinality({n \in DOMAIN operations :
                        operations[n] > now - config.windows[i].time_window_seconds})
            >= config.windows[i].max_operations}

LastCall == calls[Len(calls)]

\* The last step was a check_rate_limit call that the windows denied.
JustDenied ==
    /\ calls # <<>>
    /\ LastCall.at = now
    /\ LastCall.reason = "WindowExceeded"

\* C10: a denial by the rate windows names the first window, in policy order,
\* whose count of log entries newer than now - windowSeconds is >=
\* maxOperations.
C10_FirstWindowReported ==
    JustDenied =>
        /\ LastCall.window \in ExceededWindows
        /\ \A i \in ExceededWindows : LastCall.window <= i

\* Two windows are exceeded and the earlier one is reported.
C10_Witness ==
    /\ JustDenied
    /\ Cardinality(ExceededWindows) = 2
    /\ LastCall.window = 1

\* C2: of the concurrent validate_token calls that present the same unused,
\* unexpired token id with the matching payload, at most one returns success.
C2_AtMostOneSuccess ==
    \A id \in TokenIds :
        Cardinality({th \in Threads :
            vt[th].pc = "done" /\ vt[th].ok /\ vt[th].id = id}) <= 1

\* The number of entries of seq equal to x.
Count(seq, x) == Cardinality({n \in DOMAIN seq : seq[n] = x})

\* C8: under concurrent check_rate_limit calls, the calls that return success
\* with timestamps inside any configured window never number more than the
\* window's maxOperations, and no timestamp recorded by a successful call and
\* still inside the largest window is missing from the operation log.
C8_LimitHeldNothingLost ==
    /\ \A w \in DOMAIN config.windows : \A i \in OkCalls :
          Cardinality(OkWithin(i, config.windows[w].time_window_seconds))
              <= config.windows[w].max_operations
    /\ \A j \in OkCalls :
          now - calls[j].at < max_window(config.windows) =>
              Count(operations, calls[j].at)
                  >= Cardinality({k \in OkCalls : calls[k].at = calls[j].at})

----------------------------------------------------------------------------
(* SpecBH: the limiter under policies with business hours, with a time zone
   ZoneInfo resolves or not, and with an empty window list. The clock reads
   one minute before, at, and one minute after each full hour. *)

MaxHours == 4           \* full hours the clock of SpecBH runs through

BHTimes == {t \in {h * 3600 + m : h \in 0..MaxHours, m \in {-60, 0, 60}} : t >= 0}

PolicyHourly ==
    RateLimitConfig(<<RateLimitWindow(1, 3600, "hourly_limit")>>,
                    BusinessHours(1, 3, "UTC"))
PolicyTwoHour ==
    RateLimitConfig(<<RateLimitWindow(1, 3600, "hourly_limit"),
                      RateLimitWindow(2, 7200, "two_hour_limit")>>,
                    BusinessHours(1, 3, "UTC"))
PolicyMadrid ==
    RateLimitConfig(<<RateLimitWindow(1, 3600, "hourly_limit")>>,
                    BusinessHours(2, 4, "Europe/Madrid"))
PolicyBadZone ==
    RateLimitConfig(<<RateLimitWindow(1, 3600, "hourly_limit")>>,
                    BusinessHours(1, 3, "Europe/Madird"))
PolicyNoWindows == RateLimitConfig(<<>>, NoBusinessHours)
PolicyNoWindowsHours == RateLimitConfig(<<>>, BusinessHours(1, 3, "UTC"))
\* start_hour = end_hour, and start_hour after end_hour as in a range meant to
\* run over midnight
PolicyEmptyRange ==
    RateLimitConfig(<<RateLimitWindow(1, 3600, "hourly_limit")>>,
                    BusinessHours(2, 2, "UTC"))
PolicyOvernight ==
    RateLimitConfig(<<RateLimitWindow(1, 3600, "hourly_limit")>>,
                    BusinessHours(3, 1, "UTC"))

BHPolicies == {PolicyHourly, PolicyTwoHour, PolicyMadrid, PolicyBadZone,
               PolicyNoWindows, PolicyNoWindowsHours, PolicyEmptyRange,
               PolicyOvernight}

InitBH ==
    /\ now = 0
    /\ TokIdle
    /\ config \in BHPolicies
    /\ operations = <<>>
    /\ calls = <<>>
    /\ rt = <<>>
    /\ peer = <<>>
    /\ CfgIdle
    /\ FlowIdle

\* time.time() returns a later reading.
BHTick(t) ==
    /\ t > now
    /\ now' = t
    /\ UNCHANGED <<rlVars, rt, tokVars, tokThreadVars, cfgVars, flowVars>>

NextBH ==
    \/ \E tercero \in {"A1"} : CheckRateLimit(tercero)
    \/ \E t \in BHTimes : BHTick(t)

SpecBH == InitBH /\ [][NextBH]_vars

----------------------------------------------------------------------------
(* SpecPair: two limiters with the same policy, called at the same clock
   times, each with a tercero of its own *)

PairPolicies == {PolicyScenario, PolicyTwo}

InitPair ==
    /\ now = 0
    /\ TokIdle
    /\ config \in PairPolicies
    /\ operations = <<>>
    /\ calls = <<>>
    /\ rt = <<>>
    /\ peer = [operations |-> <<>>, calls |-> <<>>]
    /\ CfgIdle
    /\ FlowIdle

\* The timestamps of the calls in the history that tercero made and that
\* returned success.
RECURSIVE OwnOperations(_, _)
OwnOperations(history, tercero) ==
    IF history = <<>> THEN <<>>
    ELSE LET rest == OwnOperations(Tail(history), tercero)
         IN  IF Head(history).ok /\ Head(history).tercero = tercero
             THEN <<Head(history).at>> \o rest
             ELSE rest

CallRecord(tercero, r) ==
    [at |-> now, tercero |-> tercero, ok |-> r.ok, reason |-> r.reason,
     window |-> r.window]

\* Variant: the first limiter counts the operations of each tercero apart.
PairCheckRateLimit_PerTercero(tercero, other) ==
    /\ Len(calls) < MaxCalls
    /\ LET r == check_rate_limit(config, OwnOperations(calls, tercero), now)
           q == check_rate_limit(config, peer.operations, now)
       IN  /\ operations' = IF r.ok THEN Append(operations, now) ELSE operations
           /\ calls' = Append(calls, CallRecord(tercero, r))
           /\ peer' = [operations |-> q.operations,
                       calls |-> Append(peer.calls, CallRecord(other, q))]
    /\ UNCHANGED <<now, config, rt, tokVars, tokThreadVars, cfgVars, flowVars>>

\* check_rate_limit(tercero) on the first limiter and check_rate_limit(other)
\* on the second, at the same clock time.
PairCheckRateLimit(tercero, other) ==
    /\ Len(calls) < MaxCalls
    /\ LET r == check_rate_limit(config, operations, now)
           q == check_rate_limit(config, peer.operations, now)
       IN  /\ operations' = r.operations
           /\ calls' = Append(calls, CallRecord(tercero, r))
           /\ peer' = [operations |-> q.operations,
                       calls |-> Append(peer.calls, CallRecord(other, q))]
    /\ UNCHANGED <<now, config, rt, tokVars, tokThreadVars, cfgVars, flowVars>>

NextPair ==
    \/ \E tercero \in Terceros, other \in Terceros : PairCheckRateLimit(tercero, other)
    \/ \E d \in RLClockSteps : RLTick(d)

SpecPair == InitPair /\ [][NextPair]_vars

----------------------------------------------------------------------------
(* The signed configuration file: SecureConfigLoader, load_rate_limit_config
   and save_rate_limit_config.

   A Python dict is a function on its keys, the empty dict is <<>>, and a
   dict is falsy when it has no key. json.dump and json.load carry the
   dicts, lists, ints and strs of a configuration unchanged; what the model
   keeps of the file's text is how many of the writes that make up the
   document have reached the file. An HMAC is the pair of its key and the
   message it was computed over. *)

MaxSaves == 2           \* save_rate_limit_config calls per behaviour
DocWrites == 2          \* writes to the file that make up one document

config_secret == "SICAL_CONFIG_SECRET_KEY"
attacker_secret == "guess"

EmptyDict == <<>>

Falsy(dict) == DOMAIN dict = {}

\* The window dicts of a configuration in json.dumps(sort_keys=True) order.
RECURSIVE canonical_windows(_)
canonical_windows(windows) ==
    IF windows = <<>> THEN <<>>
    ELSE <<"max_operations", ToString(Head(windows).max_operations),
           "name", Head(windows).name,
           "time_window_seconds", ToString(Head(windows).time_window_seconds)>>
         \o canonical_windows(Tail(windows))

\* json.dumps(config, sort_keys=True, separators=(',', ':'))
canonical_json(cfg) ==
    IF Falsy(cfg) THEN <<"{}">>
    ELSE
    (IF "business_hours" \in DOMAIN cfg
     THEN <<"business_hours",
            "end_hour", ToString(cfg.business_hours.end_hour),
            "start_hour", ToString(cfg.business_hours.start_hour),
            "timezone", cfg.business_hours.timezone>>
     ELSE <<>>)
    \o <<"windows">> \o canonical_windows(cfg.windows)

\* _sign_config
sign_config(key, cfg) == [key |-> key, msg |-> canonical_json(cfg)]

\* An empty signature string
NoSignature == [key |-> "", msg |-> <<>>]

\* The file at config_path: absent, or holding the first `written` writes of
\* a document; `by` tells who wrote it last.
NoFile ==
    [exists |-> FALSE, written |-> 0, signature |-> NoSignature, config |-> EmptyDict,
     generated_at |-> 0, by |-> "none"]

\* Variant: a signature made with any key is accepted.
signature_matches_AnyKey(key, signature, cfg) ==
    signature.msg = canonical_json(cfg)

\* hmac.compare_digest(signature, expected_signature)
signature_matches(key, signature, cfg) ==
    signature = sign_config(key, cfg)

\* Variant: the signature is not compared.
load_config_NoVerify(key, f) ==
    IF ~f.exists THEN [raised |-> "", config |-> EmptyDict]
    ELSE IF f.written < DocWrites
         THEN [raised |-> "ValueError: corrupted", config |-> EmptyDict]
    ELSE IF f.signature = NoSignature \/ Falsy(f.config)
         THEN [raised |-> "ValueError: missing", config |-> EmptyDict]
    ELSE [raised |-> "", config |-> f.config]

\* SecureConfigLoader.load_config
load_config(key, f) ==
    IF ~f.exists THEN [raised |-> "", config |-> EmptyDict]
    ELSE IF f.written < DocWrites
         THEN [raised |-> "ValueError: corrupted", config |-> EmptyDict]
    ELSE IF f.signature = NoSignature \/ Falsy(f.config)
         THEN [raised |-> "ValueError: missing", config |-> EmptyDict]
    ELSE IF ~signature_matches(key, f.signature, f.config)
         THEN [raised |-> "ValueError: signature", config |-> EmptyDict]
    ELSE [raised |-> "", config |-> f.config]

\* SecureConfigLoader.save_config: the file once the document is written
save_config(key, cfg, t) ==
    [exists |-> TRUE, written |-> DocWrites, signature |-> sign_config(key, cfg),
     config |-> cfg, generated_at |-> t, by |-> "save"]

\* _get_default_rate_limit_config
get_default_rate_limit_config ==
    RateLimitConfig(<<RateLimitWindow(15, 3600, "hourly_limit"),
                      RateLimitWindow(30, 86400, "daily_limit")>>,
                    BusinessHours(7, 19, "Europe/Madrid"))

\* The windows list comprehension of load_rate_limit_config
parse_windows(cfg) ==
    IF "windows" \in DOMAIN cfg
    THEN [i \in DOMAIN cfg.windows |->
            RateLimitWindow(cfg.windows[i].max_operations,
                            cfg.windows[i].time_window_seconds,
                            cfg.windows[i].name)]
    ELSE <<>>

\* Variant: an empty dict from load_config is parsed like any other.
load_rate_limit_config_NoDefault(key, f) ==
    LET r == load_config(key, f)
    IN  IF r.raised # "" THEN get_default_rate_limit_config
        ELSE RateLimitConfig(parse_windows(r.config),
                 IF "business_hours" \in DOMAIN r.config
                 THEN BusinessHours(r.config.business_hours.start_hour,
                                    r.config.business_hours.end_hour,
                                    r.config.business_hours.timezone)
                 ELSE NoBusinessHours)

\* load_rate_limit_config
load_rate_limit_config(key, f) ==
    LET r == load_config(key, f)
    IN  IF r.raised # "" THEN get_default_rate_limit_config
        ELSE IF Falsy(r.config) THEN get_default_rate_limit_config
        ELSE RateLimitConfig(parse_windows(r.config),
                 IF "business_hours" \in DOMAIN r.config
                 THEN BusinessHours(r.config.business_hours.start_hour,
                                    r.config.business_hours.end_hour,
                                    r.config.business_hours.timezone)
                 ELSE NoBusinessHours)

\* The 'windows' list of save_rate_limit_config
window_dicts(policy) ==
    [i \in DOMAIN policy.windows |->
        [max_operations |-> policy.windows[i].max_operations,
         time_window_seconds |-> policy.windows[i].time_window_seconds,
         name |-> policy.windows[i].name]]

\* Variant: an empty window list is left out of the dict.
config_dict_OmitEmpty(policy) ==
    IF policy.business_hours # NoBusinessHours
    THEN [windows |-> window_dicts(policy),
          business_hours |-> [start_hour |-> policy.business_hours.start_hour,
                              end_hour |-> policy.business_hours.end_hour,
                              timezone |-> policy.business_hours.timezone]]
    ELSE IF policy.windows = <<>> THEN EmptyDict
    ELSE [windows |-> window_dicts(policy)]

\* config_dict of save_rate_limit_config
config_dict(policy) ==
    IF policy.business_hours # NoBusinessHours
    THEN [windows |-> window_dicts(policy),
          business_hours |-> [start_hour |-> policy.business_hours.start_hour,
                              end_hour |-> policy.business_hours.end_hour,
                              timezone |-> policy.business_hours.timezone]]
    ELSE [windows |-> window_dicts(policy)]

\* save_rate_limit_config: the file it leaves
save_rate_limit_config(key, policy, t) ==
    save_config(key, config_dict(policy), t)

----------------------------------------------------------------------------
(* SpecCfg: the configuration file saved and loaded by one process that holds
   the secret, and rewritten, replaced, truncated or deleted by a party that
   does not *)

PolicyStrict ==
    RateLimitConfig(<<RateLimitWindow(5, 3600, "hourly_limit")>>,
                    BusinessHours(9, 17, "Europe/Madrid"))
PolicyTest == RateLimitConfig(<<RateLimitWindow(10, 3600, "test_limit")>>, NoBusinessHours)
PolicyTampered ==
    RateLimitConfig(<<RateLimitWindow(10000, 3600, "test_limit")>>, NoBusinessHours)

CfgPolicies == {PolicyStrict, PolicyTest, PolicyNoWindows, get_default_rate_limit_config}

NoLoad ==
    [op |-> "none", seen |-> NoFile, raised |-> "",
     policy |-> get_default_rate_limit_config]

NoSave == [pc |-> "idle", policy |-> get_default_rate_limit_config, old |-> NoFile]

InitCfg ==
    /\ now = 0
    /\ TokIdle
    /\ RLIdle
    /\ file = NoFile
    /\ saves = <<>>
    /\ loadOp = NoLoad
    /\ sv = NoSave
    /\ FlowIdle

CfgFrame == UNCHANGED <<now, tokVars, tokThreadVars, rlVars, rt, flowVars>>

\* save_rate_limit_config(policy, config_path), run to its end
SaveRateLimitConfig(policy) ==
    /\ Len(saves) < MaxSaves
    /\ file' = save_rate_limit_config(config_secret, policy, now)
    /\ saves' = Append(saves, policy)
    /\ loadOp' = NoLoad
    /\ UNCHANGED sv
    /\ CfgFrame

\* load_rate_limit_config(config_path)
LoadRateLimitConfig ==
    /\ loadOp' = [op |-> "load", seen |-> file,
                  raised |-> load_config(config_secret, file).raised,
                  policy |-> load_rate_limit_config(config_secret, file)]
    /\ UNCHANGED <<file, saves, sv>>
    /\ CfgFrame

\* What a party with access to the file can put in it: configurations of its
\* choice, signatures under a key of its choice, and the signatures of the
\* documents that have been in the file.
AttackerConfigs == {config_dict(policy) : policy \in CfgPolicies \cup {PolicyTampered}}

AttackerSignatures ==
    {NoSignature}
    \cup {sign_config(attacker_secret, cfg) : cfg \in AttackerConfigs}
    \cup {sign_config(config_secret, config_dict(saves[i])) : i \in DOMAIN saves}

AttackerWrite(signature, cfg) ==
    /\ file' = [exists |-> TRUE, written |-> DocWrites, signature |-> signature,
                config |-> cfg, generated_at |-> now, by |-> "other"]
    /\ loadOp' = NoLoad
    /\ UNCHANGED <<saves, sv>>
    /\ CfgFrame

\* The config section is emptied or removed.
AttackerStrip ==
    /\ file.exists
    /\ file' = [file EXCEPT !.config = EmptyDict, !.by = "other"]
    /\ loadOp' = NoLoad
    /\ UNCHANGED <<saves, sv>>
    /\ CfgFrame

\* The text is cut after n writes.
AttackerTruncate(n) ==
    /\ file.exists
    /\ n < file.written
    /\ file' = [file EXCEPT !.written = n, !.by = "other"]
    /\ loadOp' = NoLoad
    /\ UNCHANGED <<saves, sv>>
    /\ CfgFrame

AttackerDelete ==
    /\ file.exists
    /\ file' = [NoFile EXCEPT !.by = "other"]
    /\ loadOp' = NoLoad
    /\ UNCHANGED <<saves, sv>>
    /\ CfgFrame

NextCfg ==
    \/ \E policy \in CfgPolicies : SaveRateLimitConfig(policy)
    \/ LoadRateLimitConfig
    \/ \E signature \in AttackerSignatures, cfg \in AttackerConfigs :
          AttackerWrite(signature, cfg)
    \/ AttackerStrip
    \/ \E n \in 0..(DocWrites - 1) : AttackerTruncate(n)
    \/ AttackerDelete

SpecCfg == InitCfg /\ [][NextCfg]_vars

----------------------------------------------------------------------------
(* SpecCfgConc: load_rate_limit_config called while save_config writes the
   file. save_config opens config_path with mode 'w', which empties the
   file, and json.dump reaches the file in one or more writes, the last of
   them when the file is closed. *)

\* save_rate_limit_config up to signature = self._sign_config(config) and
\* the data dict
SvBegin(policy) ==
    /\ sv.pc = "idle"
    /\ Len(saves) < MaxSaves
    /\ sv' = [pc |-> "open", policy |-> policy, old |-> file]
    /\ saves' = Append(saves, policy)
    /\ loadOp' = NoLoad
    /\ UNCHANGED file
    /\ CfgFrame

\* open(config_path, 'w', encoding='utf-8')
SvOpen ==
    /\ sv.pc = "open"
    /\ file' = [save_rate_limit_config(config_secret, sv.policy, now) EXCEPT !.written = 0]
    /\ sv' = [sv EXCEPT !.pc = "dump"]
    /\ loadOp' = NoLoad
    /\ UNCHANGED saves
    /\ CfgFrame

\* json.dump(data, f, indent=2): one write of the buffer to the file
SvWrite ==
    /\ sv.pc = "dump"
    /\ file.written < DocWrites - 1
    /\ file' = [file EXCEPT !.written = file.written + 1]
    /\ loadOp' = NoLoad
    /\ UNCHANGED <<saves, sv>>
    /\ CfgFrame

\* leaving the with block: the rest of the buffer is written, the file closed
SvClose ==
    /\ sv.pc = "dump"
    /\ file' = [file EXCEPT !.written = DocWrites]
    /\ sv' = [sv EXCEPT !.pc = "idle"]
    /\ loadOp' = NoLoad
    /\ UNCHANGED saves
    /\ CfgFrame

NextCfgConc ==
    \/ \E policy \in CfgPolicies : SvBegin(policy)
    \/ SvOpen
    \/ SvWrite
    \/ SvClose
    \/ LoadRateLimitConfig

SpecCfgConc == InitCfg /\ [][NextCfgConc]_vars

----------------------------------------------------------------------------
(* Claims about business hours and denied calls: C11, C12, C13, C15 under
   SpecBH *)

\* The step is a check_rate_limit call that returned.
CallReturned == Len(calls') = Len(calls) + 1

\* What the call of this step returned.
Returned == calls'[Len(calls')]

\* The number of times ts occurs in the log.
Occurrences(ops, ts) == Len(SelectSeq(ops, LAMBDA x : x = ts))

\* C11: a check_rate_limit call that does not return success adds no
\* timestamp to the operation log, and a call made at any later clock time
\* returns the same result and leaves the same log as if the denied call had
\* not been made; a call that returns success appends the current time.
C11_Step ==
    CallReturned =>
        /\ Returned.ok =>
              /\ Len(operations') >= 1
              /\ operations'[Len(operations')] = now
              /\ Occurrences(operations', now) = Occurrences(operations, now) + 1
        /\ ~Returned.ok =>
              /\ \A ts \in BHTimes : Occurrences(operations', ts) <= Occurrences(operations, ts)
              /\ \A t \in {u \in BHTimes : u >= now} :
                    check_rate_limit(config, operations', t)
                        = check_rate_limit(config, operations, t)

C11_DeniedLeavesNoTrace == [][C11_Step]_vars

\* A call denied by a window, followed by a call that succeeded.
C11_Witness ==
    \E k \in 1..(Len(calls) - 1) :
        /\ ~calls[k].ok
        /\ calls[k].reason = "WindowExceeded"
        /\ calls[k + 1].ok

\* Business hours are configured and ZoneInfo resolves the time zone.
HoursResolvable ==
    /\ config.business_hours # NoBusinessHours
    /\ config.business_hours.timezone \in DOMAIN ZoneOffset

\* The local hour at the current time is before start_hour or not before
\* end_hour.
OutsideHours ==
    LET h == LocalHour(now, config.business_hours.timezone)
    IN  h < config.business_hours.start_hour \/ h >= config.business_hours.end_hour

\* C12: with business hours configured and the time zone resolvable, a call
\* fails with the outside-business-hours reason exactly when the local hour
\* is < start_hour or >= end_hour; then no window decides the result and the
\* operation log is left as it was.
C12_Step ==
    (CallReturned /\ HoursResolvable) =>
        /\ (Returned.reason = "OutsideBusinessHours") <=> OutsideHours
        /\ OutsideHours => (~Returned.ok /\ Returned.window = 0 /\ operations' = operations)

C12_HoursDecideFirst == [][C12_Step]_vars

\* A call at end_hour exactly, denied for the hour while a window is
\* exceeded as well and the log holds an entry older than the longest window.
C12_Witness ==
    /\ HoursResolvable
    /\ Len(calls) >= 1
    /\ calls[Len(calls)].at = now
    /\ calls[Len(calls)].reason = "OutsideBusinessHours"
    /\ LocalHour(now, config.business_hours.timezone) = config.business_hours.end_hour
    /\ now % 3600 = 0
    /\ first_exceeded(config.windows, operations, now, 1) # 0
    /\ \E i \in DOMAIN operations : now - operations[i] >= max_window(config.windows)

\* Business hours are configured and ZoneInfo does not resolve the time zone.
HoursUnresolvable ==
    /\ config.business_hours # NoBusinessHours
    /\ config.business_hours.timezone \notin DOMAIN ZoneOffset

\* C13: when the time zone of the configured business hours cannot be
\* resolved, a call never fails with the outside-business-hours reason; its
\* result and the log it leaves are those of the same call under the same
\* windows with no business hours configured.
C13_Step ==
    (CallReturned /\ HoursUnresolvable) =>
        LET r == check_rate_limit([config EXCEPT !.business_hours = NoBusinessHours],
                                  operations, now)
        IN  /\ Returned.reason # "OutsideBusinessHours"
            /\ Returned.ok = r.ok
            /\ Returned.reason = r.reason
            /\ Returned.window = r.window
            /\ operations' = r.operations

C13_UnresolvableZoneSkipsHours == [][C13_Step]_vars

\* A successful call under an unresolvable zone at an hour that is outside
\* the configured hours in every zone the model resolves.
C13_Witness ==
    /\ HoursUnresolvable
    /\ Len(calls) >= 1
    /\ calls[Len(calls)].ok
    /\ \A tz \in DOMAIN ZoneOffset :
          LocalHour(calls[Len(calls)].at, tz) >= config.business_hours.end_hour

\* C15: with an empty window list, a call made inside business hours, or
\* with no business hours configured, returns success and appends the
\* current time.
C15_Step ==
    (CallReturned /\ Len(config.windows) = 0 /\ check_business_hours(config, now)) =>
        /\ Returned.ok
        /\ operations' = Append(operations, now)

C15_EmptyWindowsSucceed == [][C15_Step]_vars

----------------------------------------------------------------------------
(* Claim about the subject identifier: C14 under SpecPair *)

----------------------------------------------------------------------------
(* Claims about the configuration file: C16, C17, C18, C20 under SpecCfg *)

Loaded == loadOp.op = "load"

LastSaved == saves[Len(saves)]

\* C16: a load_rate_limit_config call on the file as save_rate_limit_config
\* left it, with the same secret, returns the policy that was saved: the same
\* windows in the same order and the same business hours or none.
C16_SaveLoadRoundTrip ==
    (Loaded /\ saves # <<>> /\ loadOp.seen.by = "save") =>
        /\ loadOp.raised = ""
        /\ loadOp.policy = LastSaved

\* A policy with no window and no business hours, saved over an earlier
\* document and loaded.
C16_Witness ==
    /\ Loaded
    /\ Len(saves) = 2
    /\ loadOp.seen.by = "save"
    /\ LastSaved = PolicyNoWindows
    /\ saves[1].business_hours # NoBusinessHours

\* The complete document the load read carries a signature that is not the
\* HMAC of its config section under the loader's secret.
SignatureMismatch ==
    /\ loadOp.seen.exists
    /\ loadOp.seen.written = DocWrites
    /\ loadOp.seen.signature # sign_config(config_secret, loadOp.seen.config)

\* C17: when the signature of the document is not the HMAC of its config
\* section under the loader's secret, load_config raises and
\* load_rate_limit_config returns the compiled-in defaults.
C17_MismatchRejected ==
    (Loaded /\ SignatureMismatch) =>
        /\ loadOp.raised # ""
        /\ loadOp.policy = get_default_rate_limit_config

\* The config section was changed to allow 10000 operations under the
\* signature the saved document carried.
C17_Witness ==
    /\ Loaded
    /\ saves = <<PolicyTest>>
    /\ loadOp.seen.config = config_dict(PolicyTampered)
    /\ loadOp.seen.signature = sign_config(config_secret, config_dict(PolicyTest))
    /\ loadOp.raised = "ValueError: signature"

\* C18: when the file does not exist, load_rate_limit_config raises nothing
\* and returns hourly_limit (15 per 3600 s), daily_limit (30 per 86400 s) and
\* business hours 7 to 19 in Europe/Madrid.
C18_MissingFileDefaults ==
    (Loaded /\ ~loadOp.seen.exists) =>
        /\ loadOp.raised = ""
        /\ loadOp.policy =
              [windows |-> <<[max_operations |-> 15, time_window_seconds |-> 3600,
                              name |-> "hourly_limit"],
                             [max_operations |-> 30, time_window_seconds |-> 86400,
                              name |-> "daily_limit"]>>,
               business_hours |-> [start_hour |-> 7, end_hour |-> 19,
                                   timezone |-> "Europe/Madrid"]]

\* A load before any file was written.
C18_Witness ==
    /\ Loaded
    /\ ~loadOp.seen.exists
    /\ loadOp.seen.by = "none"
    /\ saves = <<>>

\* Policy p permits more than policy q: a window of q is missing from p or
\* has a larger max_operations in p, or q has business hours and p has none
\* or wider ones.
PermitsMore(p, q) ==
    \/ \E j \in DOMAIN q.windows :
          \/ \A i \in DOMAIN p.windows : p.windows[i].name # q.windows[j].name
          \/ \E i \in DOMAIN p.windows :
                /\ p.windows[i].name = q.windows[j].name
                /\ p.windows[i].max_operations > q.windows[j].max_operations
    \/ /\ q.business_hours # NoBusinessHours
       /\ \/ p.business_hours = NoBusinessHours
          \/ p.business_hours.start_hour < q.business_hours.start_hour
          \/ p.business_hours.end_hour > q.business_hours.end_hour

\* C20 as stated: whatever was done to the file, the policy
\* load_rate_limit_config returns does not permit more than the policy most
\* recently saved.
C20_NeverMorePermissive ==
    (Loaded /\ saves # <<>>) => ~PermitsMore(loadOp.policy, LastSaved)

\* C20: whatever was done to the file by a party without the secret, the
\* policy load_rate_limit_config returns is the compiled-in default policy or
\* a policy that was saved with the secret.
C20_DefaultsOrSaved ==
    Loaded =>
        \/ loadOp.policy = get_default_rate_limit_config
        \/ \E i \in DOMAIN saves : loadOp.policy = saves[i]

\* The file was replaced by an earlier signed document, and the load returned
\* its policy, which permits more than the one most recently saved.
C20_Witness ==
    /\ Loaded
    /\ Len(saves) = 2
    /\ loadOp.seen.by = "other"
    /\ loadOp.policy = saves[1]
    /\ loadOp.policy # get_default_rate_limit_config
    /\ PermitsMore(loadOp.policy, LastSaved)

----------------------------------------------------------------------------
(* Claim about a load during a save: C19 under SpecCfgConc *)

\* C19: a load_rate_limit_config call made while save_config is writing over
\* a complete, validly signed document meets no error and returns the policy
\* of the old document or the policy being saved.
C19_LoadSeesOldOrNew ==
    (/\ Loaded
     /\ sv.pc # "idle"
     /\ Len(saves) >= 2
     /\ sv.old.written = DocWrites
     /\ load_config(config_secret, sv.old).raised = "")
    => /\ loadOp.raised = ""
       /\ loadOp.policy \in {saves[Len(saves) - 1], LastSaved}

----------------------------------------------------------------------------
(* Claims about the force_create workflow: C21, C22, C23 under SpecFlow *)

\* The calls the last execute made, as a set, and their order.
Called(name) == \E i \in DOMAIN attempt.trace : attempt.trace[i] = name

CalledBefore(first, second) ==
    \E i, j \in DOMAIN attempt.trace :
        i < j /\ attempt.trace[i] = first /\ attempt.trace[j] = second

\* C21: every force_create attempt the PMP450 workflow handles, approved or
\* rejected, has emitted an audit record with its outcome and reason when
\* its result is returned, and its outcome is that of the token validation
\* whether or not the audit file could be written.
C21_EveryAttemptAudited ==
    (attempt.processor = "PMP450" /\ attempt.policy = "force_create") =>
        /\ audit.logger # <<>>
        /\ LET e == audit.logger[Len(audit.logger)]
           IN  /\ e.token = attempt.token
               /\ e.token_valid = attempt.valid
               /\ e.error = attempt.reason
        /\ attempt.status = (IF attempt.valid THEN "COMPLETED" ELSE "FAILED")
        /\ ~attempt.valid => attempt.error = attempt.reason

\* C22: in a force_create attempt validate_token is called only after
\* check_rate_limit, and no force_create operation reaches data entry
\* without a limiter check.
C22_LimiterBeforeToken ==
    attempt.policy = "force_create" =>
        /\ Called("validate_token") => CalledBefore("check_rate_limit", "validate_token")
        /\ Called("enter_operation_data") => Called("check_rate_limit")

\* C23: in every processor an operation with duplicate_policy force_create
\* reaches data entry only after validate_token returned success for its
\* token; otherwise it ends FAILED with no data entered.
C23_EntryNeedsValidToken ==
    attempt.policy = "force_create" =>
        /\ Called("enter_operation_data") =>
              (attempt.valid /\ CalledBefore("validate_token", "enter_operation_data"))
        /\ ~attempt.valid =>
              (attempt.status = "FAILED" /\ ~Called("enter_operation_data"))

----------------------------------------------------------------------------
(* SpecHash: one token, issued for a payload of up to MaxItems line items and
   presented right away with any payload. Payloads carry fields the
   fingerprint does not read, and are Python dicts: mappings that remember
   the order in which their keys were inserted. *)

MaxItems == 2           \* line items of a payload in SpecHash

HashItem(f, e, i) == [funcional |-> f, economica |-> e, importe |-> i, cuenta |-> "400"]

\* One line item, and the items that differ from it in one value.
HashItems ==
    {HashItem("920", "224", i) : i \in Importes}
    \cup {HashItem("921", "224", PyString("100")), HashItem("920", "225", PyString("100"))}

HashItemLists == UNION {[1..n -> HashItems] : n \in 0..MaxItems}

HashData(t, f, c, x, apps) ==
    [tercero |-> t, fecha |-> f, caja |-> c, texto |-> x, aplicaciones |-> apps]

\* The payloads presented: any line items, and at most one of the other
\* fields changed.
HashPresented ==
    {HashData(k[1], k[2], k[3], x, apps) :
        k \in {<<"A1", "01012025", "200">>, <<"B2", "01012025", "200">>,
               <<"A1", "02012025", "200">>, <<"A1", "01012025", "201">>},
        x \in {"PAGO", "OTRO"},
        apps \in HashItemLists}

\* A dict literal or a dict built key by key: the pairs of mapping in the
\* order keys.
PyDict(keys, mapping) == [i \in 1..Len(keys) |-> <<keys[i], mapping[keys[i]]>>]

\* dict.get and dict[key]: the value stored under key, whatever its position.
Dict(pairs) ==
    [k \in {pairs[i][1] : i \in DOMAIN pairs} |->
        pairs[CHOOSE i \in DOMAIN pairs : pairs[i][1] = k][2]]

\* The payload _hash_operation_data reads through operation_data.get and
\* app.get.
operation_dict(pairs) ==
    LET d == Dict(pairs)
    IN  [d EXCEPT !["aplicaciones"] = [i \in DOMAIN @ |-> Dict(@[i])]]

KeyOrders ==
    {<<"tercero", "fecha", "caja", "texto", "aplicaciones">>,
     <<"aplicaciones", "texto", "caja", "fecha", "tercero">>}
ItemKeyOrders ==
    {<<"funcional", "economica", "importe", "cuenta">>,
     <<"cuenta", "importe", "economica", "funcional">>}

\* The payload data as a dict with its keys in order ko and the keys of its
\* line items in order io.
Ordered(ko, io, data) ==
    PyDict(ko, [data EXCEPT !.aplicaciones =
                    [i \in DOMAIN @ |-> PyDict(io, @[i])]])

HashGenerate(data) ==
    /\ nextId = 1
    /\ GenerateToken(data)

HashValidate(data) ==
    /\ 1 \in DOMAIN tokens
    /\ ~tokens[1].used
    /\ lastOp.op = "generate"
    /\ ValidateToken(1, data)

NextHash ==
    \/ \E apps \in HashItemLists :
          HashGenerate(HashData("A1", "01012025", "200", "PAGO", apps))
    \/ \E data \in HashPresented : HashValidate(data)

SpecHash == InitTok /\ [][NextHash]_vars

----------------------------------------------------------------------------
(* Claims about the token manager: C24, C25, C26, C30 under SpecTok *)

\* The failure reasons in the order validate_token tests them.
Precedence ==
    <<"MissingToken", "UnknownToken", "AlreadyUsed", "Expired", "FingerprintMismatch">>

\* The failure conditions that hold of a call with token_id and data made on
\* table toks at time t.
Applicable(toks, token_id, data, t) ==
    {r \in {"MissingToken"} : token_id = NoToken}
    \cup {r \in {"UnknownToken"} : token_id # NoToken /\ token_id \notin DOMAIN toks}
    \cup {r \in {"AlreadyUsed"} : token_id \in DOMAIN toks /\ toks[token_id].used}
    \cup {r \in {"Expired"} : token_id \in DOMAIN toks /\ t > toks[token_id].expires_at}
    \cup {r \in {"FingerprintMismatch"} :
            token_id \in DOMAIN toks
            /\ hash_operation_data(data) # toks[token_id].operation_hash}

\* C24: a validate_token call succeeds exactly when no failure condition
\* holds, and otherwise reports the one that comes first in the order missing,
\* unknown, used, expired, mismatch: a used and expired token is reported as
\* already used, an expired token with another payload as expired.
C24_Step ==
    lastOp'.op = "validate" =>
        LET A == Applicable(tokens, lastOp'.id, lastOp'.data, now)
        IN  /\ lastOp'.ok <=> A = {}
            /\ lastOp'.ok => lastOp'.reason = ""
            /\ A # {} =>
                  \E i \in 1..Len(Precedence) :
                      /\ Precedence[i] \in A
                      /\ \A j \in 1..(i - 1) : Precedence[j] \notin A
                      /\ lastOp'.reason = Precedence[i]

C24_ExpiredBeforeMismatch ==
    /\ lastOp.op = "validate"
    /\ Applicable(tokens, lastOp.id, lastOp.data, now) = {"Expired", "FingerprintMismatch"}
    /\ lastOp.reason = "Expired"

\* The tokens of the table that a sweep at time t removes.
Swept(toks, t) == {id \in DOMAIN toks : toks[id].expires_at < t}

\* A step in which the sweep ran.
SweepRan == last_cleanup' # last_cleanup

C25_Step ==
    /\ SweepRan =>
          /\ lastOp'.op = "generate"
          /\ now - last_cleanup >= cleanup_interval
          /\ last_cleanup' = now
          /\ DOMAIN tokens \ DOMAIN tokens' = Swept(tokens, now)
    /\ ~SweepRan => DOMAIN tokens \subseteq DOMAIN tokens'
    /\ (lastOp'.op = "generate" /\ lastOp' # lastOp /\ now - last_cleanup >= cleanup_interval)
          => SweepRan

\* Every issued token that is unused and unexpired is in the table and
\* validates with its payload.
C25_LiveTokensKept ==
    \A id \in DOMAIN issued :
        (id \notin succeeded /\ now <= issued[id].expires_at) =>
            /\ id \in DOMAIN tokens
            /\ validate_token(tokens, id, issued[id].data, now).ok

\* C25: the sweep runs only inside generate_token and only when at least
\* cleanup_interval seconds have passed since the previous sweep or since
\* construction; it removes exactly the tokens whose expires_at is before the
\* current time; so an unused, unexpired token is never removed and validates
\* with its payload in every reachable state.
C25_SweepRemovesOnlyExpired == [][C25_Step]_vars /\ []C25_LiveTokensKept

\* A sweep has just removed an expired token, and an unused token that has not
\* expired is in the table.
C25_Witness ==
    /\ lastOp.op = "generate"
    /\ last_cleanup = now
    /\ \E id \in DOMAIN issued : id \notin DOMAIN tokens /\ issued[id].expires_at < now
    /\ \E id \in DOMAIN tokens : ~tokens[id].used /\ now <= tokens[id].expires_at

\* The last step was a validate_token call, made when the clock is exactly
\* expires_at, for a token not validated before, with the token's payload.
ValidatedAtExpiry ==
    /\ ValidatedWithIssuedPayload
    /\ ~lastOp.prior
    /\ now = issued[lastOp.id].expires_at

\* C26 as stated: at now = expires_at the call returns Expired and does not
\* consume the token.
C26_ExpiredAtBoundary ==
    ValidatedAtExpiry =>
        /\ ~lastOp.ok
        /\ lastOp.reason = "Expired"
        /\ lastOp.id \in DOMAIN tokens /\ ~tokens[lastOp.id].used

\* C26 amended: at now = expires_at the token is still valid: the call
\* returns success and consumes it. Expired is the answer only for a call made
\* strictly after expires_at on a token still in the table, and that call
\* does not consume the token.
C26_ValidAtBoundary ==
    /\ ValidatedAtExpiry =>
          /\ lastOp.ok
          /\ lastOp.id \in DOMAIN tokens /\ tokens[lastOp.id].used
    /\ ( /\ ValidatedWithIssuedPayload /\ ~lastOp.prior
         /\ now > issued[lastOp.id].expires_at
         /\ lastOp.id \in DOMAIN tokens )
       => (~lastOp.ok /\ lastOp.reason = "Expired" /\ ~tokens[lastOp.id].used)

\* A token has just been validated at exactly its expiry time.
C26_Witness ==
    /\ ValidatedAtExpiry
    /\ lastOp.ok
    /\ tokens[lastOp.id].used

----------------------------------------------------------------------------
(* Claims about the fingerprint: C27 under SpecHash *)

\* The number of positions of seq that hold x.
CountIn(seq, x) == Cardinality({i \in DOMAIN seq : seq[i] = x})

SameMultiset(s, t) ==
    /\ Len(s) = Len(t)
    /\ \A i \in DOMAIN s : CountIn(s, s[i]) = CountIn(t, s[i])

\* The identity-bearing values of the line items; with byStr, importe is
\* taken by its str() form.
IdentityItems(data, byStr) ==
    [i \in DOMAIN data.aplicaciones |->
        <<data.aplicaciones[i].funcional, data.aplicaciones[i].economica,
          IF byStr THEN PyString(PyStr(data.aplicaciones[i].importe))
          ELSE data.aplicaciones[i].importe>>]

SameKeyFields(P, Q) ==
    P.tercero = Q.tercero /\ P.fecha = Q.fecha /\ P.caja = Q.caja

\* The fresh token 1 has just been presented with lastOp.data.
HashCompared == lastOp.op = "validate" /\ 1 \in DOMAIN issued

\* C27 as stated: equal fingerprints only for payloads whose tercero, fecha
\* and caja agree and whose line items are the same multiset of
\* (funcional, economica, importe).
C27_EqualOnlyIfSameItems ==
    HashCompared =>
        (hash_operation_data(issued[1].data) = hash_operation_data(lastOp.data)
            => /\ SameKeyFields(issued[1].data, lastOp.data)
               /\ SameMultiset(IdentityItems(issued[1].data, FALSE),
                               IdentityItems(lastOp.data, FALSE)))

\* C27 amended: the fingerprints of two payloads are equal exactly when
\* tercero, fecha and caja agree and the line items agree, position by
\* position, in funcional, economica and str(importe); then they are the same
\* multiset of such triples. The order of the keys and the other fields do
\* not matter, and validate_token succeeds exactly when the fingerprints are
\* equal.
C27_FingerprintIdentity ==
    HashCompared =>
        LET P == issued[1].data
            Q == lastOp.data
            same == /\ SameKeyFields(P, Q)
                    /\ IdentityItems(P, TRUE) = IdentityItems(Q, TRUE)
        IN  /\ \A ko \in KeyOrders, io \in ItemKeyOrders :
                  (hash_operation_data(P)
                      = hash_operation_data(operation_dict(Ordered(ko, io, Q))))
                  <=> same
            /\ same => SameMultiset(IdentityItems(P, TRUE), IdentityItems(Q, TRUE))
            /\ lastOp.ok <=> same

\* Two line items in both payloads, which differ in another field and in an
\* importe that has the same str() form: the fingerprints are equal.
C27_Witness ==
    /\ HashCompared
    /\ Len(issued[1].data.aplicaciones) = 2
    /\ issued[1].data.texto # lastOp.data.texto
    /\ IdentityItems(issued[1].data, FALSE) # IdentityItems(lastOp.data, FALSE)
    /\ lastOp.ok

\* Two different line items presented in the other order: the fingerprints
\* differ.
C27_Permuted ==
    /\ HashCompared
    /\ Len(issued[1].data.aplicaciones) = 2
    /\ issued[1].data.aplicaciones[1] # issued[1].data.aplicaciones[2]
    /\ lastOp.data.aplicaciones
          = <<issued[1].data.aplicaciones[2], issued[1].data.aplicaciones[1]>>
    /\ SameKeyFields(issued[1].data, lastOp.data)
    /\ lastOp.reason = "FingerprintMismatch"

\* The step is a generate_token call; it issued the token nextId.
Generated == nextId' = nextId + 1

\* The new token is in the table, unused, and expires token_lifetime
\* seconds after its creation.
NewTokenStored ==
    /\ nextId \notin DOMAIN tokens
    /\ nextId \in DOMAIN tokens'
    /\ ~tokens'[nextId].used
    /\ tokens'[nextId].created_at = now
    /\ tokens'[nextId].expires_at = now + token_lifetime
    /\ tokens'[nextId].operation_hash = hash_operation_data(lastOp'.data)

\* A successful validate_token call changes no other token.
OthersUntouched ==
    (lastOp'.op = "validate" /\ lastOp'.ok) =>
        /\ DOMAIN tokens' = DOMAIN tokens
        /\ \A id \in DOMAIN tokens \ {lastOp'.id} : tokens'[id] = tokens[id]

C30_StepOriginal ==
    /\ Generated =>
          /\ NewTokenStored
          /\ \A id \in DOMAIN tokens :
                id \in DOMAIN tokens' /\ tokens'[id] = tokens[id]
    /\ OthersUntouched

\* C30 as stated: every generate_token call stores a new unused token that
\* expires token_lifetime seconds later and leaves every token already in
\* the table unchanged; consuming a token changes no other token.
C30_GenerateLeavesAll == [][C30_StepOriginal]_vars

C30_Step ==
    /\ Generated =>
          /\ NewTokenStored
          /\ \A id \in DOMAIN tokens :
                IF tokens[id].expires_at < now /\ now - last_cleanup >= cleanup_interval
                THEN id \notin DOMAIN tokens'
                ELSE id \in DOMAIN tokens' /\ tokens'[id] = tokens[id]
    /\ OthersUntouched

\* Every unused, unexpired token validates with its payload, whatever
\* happened to the other tokens issued for that payload.
C30_EachTokenValid ==
    \A id \in DOMAIN issued :
        (id \notin succeeded /\ now <= issued[id].expires_at) =>
            /\ id \in DOMAIN tokens
            /\ tokens[id].operation_hash = issued[id].operation_hash
            /\ ~tokens[id].used
            /\ validate_token(tokens, id, issued[id].data, now).ok

\* C30 amended: every generate_token call, also a repeated one for the same
\* payload, stores a new unused token that expires token_lifetime seconds
\* later; it leaves every token already in the table unchanged, except that
\* the sweep it runs when cleanup_interval has passed removes the tokens
\* past their expiry. Consuming a token changes no other token, so each of k
\* tokens issued for one payload validates once while it is unexpired.
C30_SingleUsePerToken == [][C30_Step]_vars /\ []C30_EachTokenValid

\* Two tokens issued for the same payload have both been validated.
C30_Witness ==
    /\ DOMAIN issued = {1, 2}
    /\ issued[1].operation_hash = issued[2].operation_hash
    /\ succeeded = {1, 2}
    /\ lastOp.op = "validate" /\ lastOp.ok

----------------------------------------------------------------------------
(* Claims about the operation log: C28 under SpecRL, C29 under SpecBH *)

\* The windows of the policy with the largest number of seconds.
LargestWindows ==
    {i \in DOMAIN config.windows :
        \A j \in DOMAIN config.windows :
            config.windows[j].time_window_seconds <= config.windows[i].time_window_seconds}

\* The step is a check_rate_limit call that reached the window checks.
ReachedWindows == CallReturned /\ Returned.reason \in {"", "WindowExceeded"}

\* The log the call of this step left, without the entry the call appended.
Kept == IF Returned.ok THEN SubSeq(operations', 1, Len(operations') - 1) ELSE operations'

\* C28: with calls made one after the other at non-decreasing times, the
\* entries pruning removes are exactly those at least as old as the largest
\* window, so every window counts the same entries before and after pruning
\* and the call's result is that of the window checks on the unpruned log;
\* after a call that reaches the window checks the log holds only entries
\* newer than the largest window, and no more of them than the largest
\* window's max_operations.
C28_Step ==
    ReachedWindows =>
        \A m \in LargestWindows :
            LET W == config.windows[m].time_window_seconds
            IN  /\ Kept = SelectSeq(operations, LAMBDA ts : now - ts < W)
                /\ \A i \in DOMAIN config.windows :
                      recent_ops(Kept, now, config.windows[i].time_window_seconds)
                        = recent_ops(operations, now, config.windows[i].time_window_seconds)
                /\ Returned.window = first_exceeded(config.windows, operations, now, 1)
                /\ \A k \in DOMAIN operations' : now - operations'[k] < W
                /\ Len(operations') <= config.windows[m].max_operations

C28_PruningKeepsWindows == [][C28_Step]_vars

\* Under a policy of two windows a call has succeeded after entries older
\* than the largest window were pruned.
C28_Witness ==
    /\ Len(config.windows) = 2
    /\ calls # <<>>
    /\ calls[Len(calls)].ok
    /\ calls[Len(calls)].at = now
    /\ Len(operations) < Cardinality({k \in DOMAIN calls : calls[k].ok})

\* Business hours with a resolvable time zone and start_hour >= end_hour.
InvertedHours ==
    /\ HoursResolvable
    /\ config.business_hours.start_hour >= config.business_hours.end_hour

\* C29: under business hours with start_hour >= end_hour and a resolvable
\* time zone, every check_rate_limit call, at whatever clock time, is denied
\* with the outside-business-hours reason, and the operation log stays empty.
C29_InvertedHoursDenyAll ==
    InvertedHours =>
        /\ operations = <<>>
        /\ \A k \in DOMAIN calls :
              ~calls[k].ok /\ calls[k].reason = "OutsideBusinessHours"

\* Under a range with start_hour after end_hour, calls were denied at an hour
\* before end_hour and at an hour after start_hour.
C29_Witness ==
    /\ InvertedHours
    /\ config.business_hours.start_hour > config.business_hours.end_hour
    /\ \E k \in DOMAIN calls :
          LocalHour(calls[k].at, config.business_hours.timezone)
              < config.business_hours.end_hour
    /\ \E k \in DOMAIN calls :
          LocalHour(calls[k].at, config.business_hours.timezone)
              >= config.business_hours.start_hour
    /\ \A k \in DOMAIN calls : calls[k].reason = "OutsideBusinessHours"

====
